---------------------------- MODULE Spec2Model ----------------------------
(***************************************************************************)
(* A model of the Geni repository (apps/geni-site and apps/geni-web):      *)
(* the session tokens, the magic links, the report encryption, the         *)
(* genetic-file parser and the report page.                                *)
(*                                                                         *)
(* Strings are sequences of character codes (ASCII / UTF-16 code units),   *)
(* byte buffers are sequences of 0..255.                                   *)
(***************************************************************************)
EXTENDS Integers, Sequences, FiniteSets, TLC

VARIABLES
    \* ---- token functions (jwt.server.ts, geni-web jwt) ----
    jwtApp,        \* "site" | "web": which application's token code runs
    jwtPayload,    \* the payload handed to generateToken
    jwtNow,        \* Date.now() in milliseconds
    jwtIssuedAt,   \* Date.now() when generateToken ran
    jwtGen,        \* the outcome of generateToken (a token or a thrown error)
    jwtRes,        \* the outcome of verifyToken and when it ran
    jwtPc,         \* "start" | "generated" | "verified" ("off": not running)
    jwtTicks,      \* how many times the clock has been advanced
    \* ---- report encryption (crypto.ts) ----
    cryIn,         \* the user id, the text and the report handed to the encryption
    cryEnc,        \* what encryptData / encryptReport returned
    cryDec,        \* the last decryptData call: its arguments and its outcome
    cryRep,        \* the last decryptReport call: its arguments and its outcome
    cryPc,         \* "start" | "data" | "dataDone" | "report" | "reportDone" | "off"
    \* ---- the geni-site server ----
    clock,         \* Date.now() in milliseconds
    ticks,         \* how many times the clock has been advanced
    users,         \* the users table: e-mail -> "none" (no row) | "free" | "paid"
    polarCustomers,\* the e-mail addresses Polar lists as customers
    magicLinks,    \* the magic_links table, in insertion order
    reqs,          \* the /auth/verify requests in flight, one per handler slot
    cookie,        \* the browser's geni_auth cookie (<<>>: none)
    sessions,      \* per magic link, how many sessions /auth/verify has issued for it
    reports,       \* the reports table, in insertion order
    loaded,        \* the last /report load: which one (seq) and what it returned
    restored,      \* the last POST /auth/restore: body.email and the response
    \* ---- the genetic-file parser (parser.ts) ----
    parIn,         \* the text of the uploaded file
    parOut,        \* the function that ran and the ParseResult it returned
    parPc,         \* "start" | "parsed" ("off": not running)
    \* ---- the report page (routes/report/+page.svelte) ----
    pgData,        \* the page's data prop: what the server load returned
    pgStored,      \* sessionStorage's geni_pending_report item
    pgInsights,    \* the insights state
    pgIsLoaded,    \* the isLoaded state
    pgGoto,        \* TRUE once the page has called goto('/')
    pgView,        \* what the template last rendered
    pgPc,          \* "mounted" | "ran" (the effect has run) ("off": not running)
    \* ---- the auth cookie (auth/cookies.ts) ----
    ckJar,         \* the browser's cookies: records of name, path and value
    ckLog,         \* the calls made on the Cookies object so far, in order
    \* ---- the geni-web users table (db/operations/users.ts) ----
    wuUsers,       \* the rows of the users table, in insertion order
    wuCalls,       \* the createUser calls in flight: input, position, outcome
    \* ---- a function of the domain code called on its own ----
    fnIn,          \* the argument
    fnOut,         \* what the function returned
    fnPc,          \* "start" | "done" ("off": not running)
    \* ---- the geni-web request hook (hooks.server.ts) ----
    hkPath,        \* url.pathname of the request
    hkJar,         \* the browser's cookies
    hkDb,          \* the users table as the hook's query sees it
    hkOut,         \* what handle returned for the last request
    hkHops,        \* how many redirects the browser has followed
    hkPc           \* "request" | "responded" ("off": not running)

jwtVars == <<jwtApp, jwtPayload, jwtNow, jwtIssuedAt, jwtGen, jwtRes, jwtPc, jwtTicks>>

cryVars == <<cryIn, cryEnc, cryDec, cryRep, cryPc>>

srvVars == <<clock, ticks, users, polarCustomers, magicLinks, reqs, cookie, sessions, reports,
             loaded, restored>>

parVars == <<parIn, parOut, parPc>>

pgVars == <<pgData, pgStored, pgInsights, pgIsLoaded, pgGoto, pgView, pgPc>>

ckVars == <<ckJar, ckLog>>

wuVars == <<wuUsers, wuCalls>>

fnVars == <<fnIn, fnOut, fnPc>>

hkVars == <<hkPath, hkJar, hkDb, hkOut, hkHops, hkPc>>

vars == <<jwtVars, cryVars, srvVars, parVars, pgVars, ckVars, wuVars, fnVars, hkVars>>

\* the variables of the other parts
nonJwtVars == <<cryVars, srvVars, parVars, pgVars, ckVars, wuVars, fnVars, hkVars>>
nonCryVars == <<jwtVars, srvVars, parVars, pgVars, ckVars, wuVars, fnVars, hkVars>>
nonSrvVars == <<jwtVars, cryVars, parVars, pgVars, ckVars, wuVars, fnVars, hkVars>>
nonParVars == <<jwtVars, cryVars, srvVars, pgVars, ckVars, wuVars, fnVars, hkVars>>
nonPgVars == <<jwtVars, cryVars, srvVars, parVars, ckVars, wuVars, fnVars, hkVars>>
nonCkVars == <<jwtVars, cryVars, srvVars, parVars, pgVars, wuVars, fnVars, hkVars>>
nonWuVars == <<jwtVars, cryVars, srvVars, parVars, pgVars, ckVars, fnVars, hkVars>>
nonFnVars == <<jwtVars, cryVars, srvVars, parVars, pgVars, ckVars, wuVars, hkVars>>
nonHkVars == <<jwtVars, cryVars, srvVars, parVars, pgVars, ckVars, wuVars, fnVars>>

-----------------------------------------------------------------------------
(* Characters and texts the code names *)

Ch == [plus |-> 43, slash |-> 47, equals |-> 61, minus |-> 45, underscore |-> 95,
       quote |-> 34, backslash |-> 92, comma |-> 44, colon |-> 58,
       lbrace |-> 123, rbrace |-> 125, lbracket |-> 91, rbracket |-> 93,
       zero |-> 48, newline |-> 10]

Txt == [userId |-> <<117, 115, 101, 114, 73, 100>>,
        email |-> <<101, 109, 97, 105, 108>>,
        plan |-> <<112, 108, 97, 110>>,
        role |-> <<114, 111, 108, 101>>,
        iat |-> <<105, 97, 116>>,
        exp |-> <<101, 120, 112>>,
        alg |-> <<97, 108, 103>>,
        typ |-> <<116, 121, 112>>,
        HS256 |-> <<72, 83, 50, 53, 54>>,
        JWT |-> <<74, 87, 84>>,
        succeeded |-> <<115, 117, 99, 99, 101, 101, 100, 101, 100>>,
        paid |-> <<112, 97, 105, 100>>,
        free |-> <<102, 114, 101, 101>>,
        insights |-> <<105, 110, 115, 105, 103, 104, 116, 115>>,
        hash |-> <<35>>,
        rs |-> <<114, 115>>,
        i |-> <<105>>,
        noCall |-> <<45, 45>>,
        zeros |-> <<48, 48>>,
        name23andMe |-> <<50, 51, 97, 110, 100, 77, 101>>,
        nameAncestryDNA |-> <<65, 110, 99, 101, 115, 116, 114, 121, 68, 78, 65>>]

\* str.replace(/from/g, to) for a one-character pattern and replacement
ReplaceAll(s, from, to) == [i \in 1..Len(s) |-> IF s[i] = from THEN to ELSE s[i]]

\* str.replace(/c/g, '')
RemoveAll(s, c) == SelectSeq(s, LAMBDA x : x # c)

RECURSIVE NatToStr(_)
\* the decimal digits of a non-negative integer, as JSON.stringify writes it
NatToStr(n) ==
    IF n < 10 THEN <<Ch.zero + n>> ELSE NatToStr(n \div 10) \o <<Ch.zero + (n % 10)>>

-----------------------------------------------------------------------------
(* UTF-8, as Buffer.from(str) and buf.toString('utf-8') convert *)

RECURSIVE Utf8Encode(_)
\* the bytes of the characters, in order (computed by halves)
Utf8Encode(s) ==
    LET OneChar(c) ==
            IF c < 128 THEN <<c>>
            ELSE IF c < 2048 THEN <<192 + (c \div 64), 128 + (c % 64)>>
            ELSE <<224 + (c \div 4096), 128 + ((c \div 64) % 64), 128 + (c % 64)>>
        h == Len(s) \div 2
    IN IF s = <<>> THEN <<>>
       ELSE IF Len(s) = 1 THEN OneChar(s[1])
       ELSE Utf8Encode(SubSeq(s, 1, h)) \o Utf8Encode(SubSeq(s, h + 1, Len(s)))

Utf8Decode(b) ==
    LET IsCont(x) == x >= 128 /\ x < 192
        \* a well-formed two-byte or three-byte sequence starts at byte i
        Lead2(i) == b[i] >= 194 /\ b[i] < 224 /\ i + 1 <= Len(b) /\ IsCont(b[i + 1])
        Lead3(i) ==
            /\ b[i] >= 224 /\ b[i] < 240 /\ i + 2 <= Len(b)
            /\ IsCont(b[i + 1]) /\ IsCont(b[i + 2])
            /\ (b[i] - 224) * 4096 + (b[i + 1] - 128) * 64 + (b[i + 2] - 128) >= 2048
        \* byte i continues a sequence that starts one or two bytes before it
        Consumed(i) ==
            \/ i >= 2 /\ (Lead2(i - 1) \/ Lead3(i - 1))
            \/ i >= 3 /\ Lead3(i - 2)
        \* the character decoded at byte i; a byte that starts nothing
        \* well-formed decodes to U+FFFD
        CharAt(i) ==
            IF b[i] < 128 THEN b[i]
            ELSE IF Lead2(i) THEN (b[i] - 192) * 64 + (b[i + 1] - 128)
            ELSE IF Lead3(i)
                 THEN (b[i] - 224) * 4096 + (b[i + 1] - 128) * 64 + (b[i + 2] - 128)
            ELSE 65533
        starts == SelectSeq([i \in 1..Len(b) |-> i], LAMBDA i : ~Consumed(i))
    IN [j \in 1..Len(starts) |-> CharAt(starts[j])]

-----------------------------------------------------------------------------
(* Base64, as buf.toString('base64') and Buffer.from(str, 'base64') convert *)

\* the groups of three bytes become four characters each, the last group
\* padded with '='
Base64Encode(b) ==
    LET B64Char(v) ==
            IF v < 26 THEN 65 + v
            ELSE IF v < 52 THEN 97 + (v - 26)
            ELSE IF v < 62 THEN 48 + (v - 52)
            ELSE IF v = 62 THEN Ch.plus ELSE Ch.slash
        ByteAt(i) == IF i <= Len(b) THEN b[i] ELSE 0
        CharAt(j) ==
            LET g == (j - 1) \div 4
                pos == (j - 1) % 4
                b1 == ByteAt(3 * g + 1)
                b2 == ByteAt(3 * g + 2)
                b3 == ByteAt(3 * g + 3)
            IN IF pos = 0 THEN B64Char(b1 \div 4)
               ELSE IF pos = 1 THEN B64Char((b1 % 4) * 16 + (b2 \div 16))
               ELSE IF pos = 2 THEN (IF 3 * g + 2 > Len(b) THEN Ch.equals
                                     ELSE B64Char((b2 % 16) * 4 + (b3 \div 64)))
               ELSE (IF 3 * g + 3 > Len(b) THEN Ch.equals ELSE B64Char(b3 % 64))
    IN [j \in 1..(4 * ((Len(b) + 2) \div 3)) |-> CharAt(j)]

\* the decoder skips every character outside the alphabet (it accepts the
\* URL-safe '-' and '_' too) and stops at the first '='
Base64Decode(s) ==
    LET IsB64Char(c) ==
            \/ (c >= 65 /\ c <= 90) \/ (c >= 97 /\ c <= 122) \/ (c >= 48 /\ c <= 57)
            \/ c \in {Ch.plus, Ch.slash, Ch.minus, Ch.underscore}
        B64Val(c) ==
            IF c >= 65 /\ c <= 90 THEN c - 65
            ELSE IF c >= 97 /\ c <= 122 THEN c - 97 + 26
            ELSE IF c >= 48 /\ c <= 57 THEN c - 48 + 52
            ELSE IF c = Ch.plus \/ c = Ch.minus THEN 62 ELSE 63
        pads == {i \in 1..Len(s) : s[i] = Ch.equals}
        stop == IF pads = {} THEN Len(s)
                ELSE (CHOOSE i \in pads : \A k \in pads : i <= k) - 1
        kept == SelectSeq(SubSeq(s, 1, stop), IsB64Char)
        v == [i \in 1..Len(kept) |-> B64Val(kept[i])]
        \* byte k (from 0) of the bits of the 6-bit values
        ByteAt(k) ==
            LET q == ((8 * k) \div 6) + 1
                r == (8 * k) % 6
            IN IF r = 0 THEN v[q] * 4 + (v[q + 1] \div 16)
               ELSE IF r = 2 THEN (v[q] % 16) * 16 + (v[q + 1] \div 4)
               ELSE (v[q] % 4) * 64 + v[q + 1]
    IN [i \in 1..((Len(v) * 6) \div 8) |-> ByteAt(i - 1)]

base64UrlEncode(str) ==
    RemoveAll(ReplaceAll(ReplaceAll(Base64Encode(Utf8Encode(str)),
        Ch.plus, Ch.minus), Ch.slash, Ch.underscore), Ch.equals)

base64UrlDecode(str) ==
    LET base64 == ReplaceAll(ReplaceAll(str, Ch.minus, Ch.plus), Ch.underscore, Ch.slash)
        padding == 4 - (Len(base64) % 4)
        padded == IF padding # 4 THEN base64 \o [i \in 1..padding |-> Ch.equals]
                  ELSE base64
    IN Utf8Decode(Base64Decode(padded))

-----------------------------------------------------------------------------
(* JavaScript values and JSON.  A value is a string, a number, undefined,   *)
(* an array (its items) or an object (its members [k, v] in insertion       *)
(* order).                                                                  *)

StrVal(s) == [t |-> "str", s |-> s, n |-> 0, items |-> <<>>]
NumVal(n) == [t |-> "num", s |-> <<>>, n |-> n, items |-> <<>>]
ArrVal(items) == [t |-> "arr", s |-> <<>>, n |-> 0, items |-> items]
ObjVal(members) == [t |-> "obj", s |-> <<>>, n |-> 0, items |-> members]
UNDEFINED == [t |-> "undefined", s |-> <<>>, n |-> 0, items |-> <<>>]
NULL == [t |-> "null", s |-> <<>>, n |-> 0, items |-> <<>>]

\* JavaScript truthiness: !v is ~Truthy(v)
Truthy(v) == (v.t = "str" /\ v.s # <<>>) \/ (v.t = "num" /\ v.n # 0) \/ v.t \in {"arr", "obj"}

\* the keys of the members of an object
ObjKeys(obj) == {obj[i].k : i \in DOMAIN obj}

\* obj.key
ObjGet(obj, key) ==
    IF key \in ObjKeys(obj)
    THEN (obj[CHOOSE i \in DOMAIN obj : obj[i].k = key]).v
    ELSE UNDEFINED

\* { ...obj, key: val }
ObjSet(obj, key, val) ==
    IF key \in ObjKeys(obj)
    THEN [i \in DOMAIN obj |-> IF obj[i].k = key THEN [k |-> key, v |-> val] ELSE obj[i]]
    ELSE Append(obj, [k |-> key, v |-> val])

RECURSIVE JsonEscape(_)
\* the characters of a string literal: the quote and the backslash are escaped
JsonEscape(s) ==
    IF s = <<>> THEN <<>>
    ELSE (IF Head(s) \in {Ch.quote, Ch.backslash} THEN <<Ch.backslash, Head(s)>>
          ELSE <<Head(s)>>) \o JsonEscape(Tail(s))

JsonQuote(s) == <<Ch.quote>> \o JsonEscape(s) \o <<Ch.quote>>

RECURSIVE JSONstringify(_)
RECURSIVE JsonList(_, _, _)
\* the items of an array or the members of an object, comma-separated; an
\* undefined member is left out
JsonList(items, members, first) ==
    LET x == Head(items)
        sep == IF first THEN <<>> ELSE <<Ch.comma>>
    IN IF items = <<>> THEN <<>>
       ELSE IF ~members THEN sep \o JSONstringify(x) \o JsonList(Tail(items), members, FALSE)
       ELSE IF x.v.t = "undefined" THEN JsonList(Tail(items), members, first)
       ELSE sep \o JsonQuote(x.k) \o <<Ch.colon>> \o JSONstringify(x.v)
            \o JsonList(Tail(items), members, FALSE)

\* JSON.stringify of a value
JSONstringify(v) ==
    IF v.t = "str" THEN JsonQuote(v.s)
    ELSE IF v.t = "num" THEN NatToStr(v.n)
    ELSE IF v.t = "null" THEN <<110, 117, 108, 108>>
    ELSE IF v.t = "arr" THEN <<Ch.lbracket>> \o JsonList(v.items, FALSE, TRUE) \o <<Ch.rbracket>>
    ELSE <<Ch.lbrace>> \o JsonList(v.items, TRUE, TRUE) \o <<Ch.rbrace>>

ParseFail == [ok |-> FALSE, v |-> UNDEFINED, next |-> 0]

RECURSIVE ScanStr(_, _, _)
\* the string literal whose opening quote is before position i
ScanStr(s, i, acc) ==
    IF i > Len(s) THEN ParseFail
    ELSE IF s[i] = Ch.quote THEN [ok |-> TRUE, v |-> StrVal(acc), next |-> i + 1]
    ELSE IF s[i] = Ch.backslash THEN
        IF i + 1 <= Len(s) /\ s[i + 1] \in {Ch.quote, Ch.backslash, Ch.slash}
        THEN ScanStr(s, i + 2, Append(acc, s[i + 1]))
        ELSE ParseFail
    ELSE IF s[i] < 32 THEN ParseFail
    ELSE ScanStr(s, i + 1, Append(acc, s[i]))

RECURSIVE ScanNum(_, _, _)
\* the digits from position i
ScanNum(s, i, acc) ==
    IF i <= Len(s) /\ s[i] >= Ch.zero /\ s[i] <= Ch.zero + 9
    THEN ScanNum(s, i + 1, acc * 10 + (s[i] - Ch.zero))
    ELSE [ok |-> TRUE, v |-> NumVal(acc), next |-> i]

RECURSIVE ScanValue(_, _)
RECURSIVE ScanList(_, _, _, _)
\* the items (or members) from position i to the closing bracket (or brace)
ScanList(s, i, members, acc) ==
    LET key == IF i <= Len(s) /\ s[i] = Ch.quote THEN ScanStr(s, i + 1, <<>>) ELSE ParseFail
        keyOk == key.ok /\ key.next <= Len(s) /\ s[key.next] = Ch.colon
        val == IF ~members THEN ScanValue(s, i)
               ELSE IF keyOk THEN ScanValue(s, key.next + 1) ELSE ParseFail
        acc2 == IF members THEN ObjSet(acc, key.v.s, val.v) ELSE Append(acc, val.v)
        close == IF members THEN Ch.rbrace ELSE Ch.rbracket
    IN IF ~val.ok \/ val.next > Len(s) THEN ParseFail
       ELSE IF s[val.next] = Ch.comma THEN ScanList(s, val.next + 1, members, acc2)
       ELSE IF s[val.next] = close
            THEN [ok |-> TRUE, v |-> IF members THEN ObjVal(acc2) ELSE ArrVal(acc2),
                  next |-> val.next + 1]
       ELSE ParseFail

\* the value that starts at position i: a string, a non-negative integer, an
\* array or an object
ScanValue(s, i) ==
    IF i > Len(s) THEN ParseFail
    ELSE IF s[i] = Ch.quote THEN ScanStr(s, i + 1, <<>>)
    ELSE IF s[i] = Ch.zero THEN [ok |-> TRUE, v |-> NumVal(0), next |-> i + 1]
    ELSE IF s[i] > Ch.zero /\ s[i] <= Ch.zero + 9 THEN ScanNum(s, i, 0)
    ELSE IF s[i] \in {Ch.lbracket, Ch.lbrace} THEN
        LET members == s[i] = Ch.lbrace
            close == IF members THEN Ch.rbrace ELSE Ch.rbracket
        IN IF i + 1 <= Len(s) /\ s[i + 1] = close
           THEN [ok |-> TRUE, v |-> IF members THEN ObjVal(<<>>) ELSE ArrVal(<<>>),
                 next |-> i + 2]
           ELSE ScanList(s, i + 1, members, <<>>)
    ELSE IF i + 3 <= Len(s) /\ SubSeq(s, i, i + 3) = <<110, 117, 108, 108>>
    THEN [ok |-> TRUE, v |-> NULL, next |-> i + 4]
    ELSE ParseFail

\* JSON.parse: the value the whole text denotes; ok = FALSE is a thrown
\* SyntaxError
JSONparse(s) ==
    LET r == ScanValue(s, 1)
    IN IF r.ok /\ r.next = Len(s) + 1 THEN [ok |-> TRUE, v |-> r.v]
       ELSE [ok |-> FALSE, v |-> UNDEFINED]

-----------------------------------------------------------------------------
(* Session tokens: jwt.server.ts (geni-site) and the geni-web jwt service.  *)
(*                                                                          *)
(* A token string is held as the sequence of its dot-separated parts (no    *)
(* part contains a dot, so token.split('.') is that sequence).  A part is   *)
(* text, or the base64url digest of an HMAC, held as the key and message it *)
(* was computed from: two digests are equal iff key and message are.        *)

TextPart(s) == [kind |-> "txt", txt |-> s, key |-> "", msg |-> <<>>]

JWT_SECRET == "JWT_SECRET"

TOKEN_EXPIRY_DAYS == 7
TOKEN_EXPIRY_MS == TOKEN_EXPIRY_DAYS * 24 * 60 * 60 * 1000
ACCESS_TOKEN_EXPIRY_MS == 60 * 60 * 1000

\* createHmac('sha256', secret).update(message).digest('base64'), made URL-safe
HmacSignature(secret, message) ==
    [kind |-> "mac", txt |-> <<>>, key |-> secret, msg |-> message]

\* the token lifetime of an application's token code
ExpiryMs(app) == IF app = "site" THEN TOKEN_EXPIRY_MS ELSE ACCESS_TOKEN_EXPIRY_MS

\* the third payload field: plan in geni-site, role in geni-web
ThirdKey(app) == IF app = "site" THEN Txt.plan ELSE Txt.role

\* the object literal { userId, email, plan/role } with the missing fields left out
MakePayload(app, u, e, t) ==
    (IF u.t = "undefined" THEN <<>> ELSE <<[k |-> Txt.userId, v |-> u]>>)
    \o (IF e.t = "undefined" THEN <<>> ELSE <<[k |-> Txt.email, v |-> e]>>)
    \o (IF t.t = "undefined" THEN <<>> ELSE <<[k |-> ThirdKey(app), v |-> t]>>)

PayloadMissingUserIdOnly(payload) == ~Truthy(ObjGet(payload, Txt.userId))

\* !payload.userId || !payload.email
PayloadMissingIdOrEmail(payload) ==
    ~Truthy(ObjGet(payload, Txt.userId)) \/ ~Truthy(ObjGet(payload, Txt.email))

\* generateToken(payload) of application app, run at Date.now() = nowMs;
\* ok = FALSE is a throw
generateToken(app, payload, nowMs) ==
    IF PayloadMissingIdOrEmail(payload)
    THEN [ok |-> FALSE, token |-> <<>>,
          error |-> IF app = "site" THEN "userId and email are required"
                    ELSE "userId and email are required in token payload"]
    ELSE LET now == nowMs \div 1000
             expiresAt == now + (ExpiryMs(app) \div 1000)
             header == <<[k |-> Txt.alg, v |-> StrVal(Txt.HS256)],
                         [k |-> Txt.typ, v |-> StrVal(Txt.JWT)]>>
             fullPayload == ObjSet(ObjSet(payload, Txt.iat, NumVal(now)),
                                   Txt.exp, NumVal(expiresAt))
             encodedHeader == base64UrlEncode(JSONstringify(ObjVal(header)))
             encodedPayload == base64UrlEncode(JSONstringify(ObjVal(fullPayload)))
             message == <<encodedHeader, encodedPayload>>
             signature == HmacSignature(JWT_SECRET, message)
         IN [ok |-> TRUE, error |-> "",
             token |-> <<TextPart(encodedHeader), TextPart(encodedPayload), signature>>]

TokenExpiredFlipped(exp, now) == Truthy(exp) /\ exp.n > now

\* a variant of the condition below for which no token is ever expired
TokenNeverExpired(exp, now) == FALSE

\* decoded.exp && decoded.exp < now
TokenExpired(exp, now) == Truthy(exp) /\ exp.n < now

VerifyFail(msg) == [success |-> FALSE, message |-> msg, user |-> <<>>]

\* what a block of code ends in: the value returned, or thrown = TRUE and
\* the message of the error thrown
Returned(value) == [thrown |-> FALSE, message |-> "", value |-> value]
Thrown(msg) == [thrown |-> TRUE, message |-> msg, value |-> VerifyFail("")]

\* the members of a parsed payload: a number or a string has none
DecodedMembers(decoded) == IF decoded.t = "obj" THEN decoded.items ELSE <<>>

\* the try block of verifyToken(token) of application app, run at
\* Date.now() = nowMs
VerifyTry(app, token, nowMs) ==
    IF Len(token) # 3 THEN Returned(VerifyFail("Invalid token format"))
    ELSE LET encodedHeader == token[1]
             encodedPayload == token[2]
             signature == token[3]
             message == <<encodedHeader.txt, encodedPayload.txt>>
             expectedSignature == HmacSignature(JWT_SECRET, message)
         IN IF signature # expectedSignature
            THEN Returned(VerifyFail("Invalid token signature"))
            ELSE LET parsed == JSONparse(base64UrlDecode(encodedPayload.txt))
                     decoded == DecodedMembers(parsed.v)
                     now == nowMs \div 1000
                 IN IF ~parsed.ok THEN Thrown("SyntaxError")
                    ELSE IF parsed.v.t = "null" THEN Thrown("TypeError")
                    ELSE IF TokenExpired(ObjGet(decoded, Txt.exp), now)
                    THEN Returned(VerifyFail("Token has expired"))
                    ELSE Returned(
                         [success |-> TRUE, message |-> "",
                          user |-> <<[k |-> Txt.userId, v |-> ObjGet(decoded, Txt.userId)],
                                     [k |-> Txt.email, v |-> ObjGet(decoded, Txt.email)],
                                     [k |-> ThirdKey(app),
                                      v |-> ObjGet(decoded, ThirdKey(app))]>>])

\* a variant of the catch clause below that lets the error through
VerifyNoCatch(app, outcome) == outcome

\* the catch clause of verifyToken: geni-site answers 'Invalid token',
\* geni-web the message of the error
VerifyCatch(app, outcome) ==
    IF outcome.thrown
    THEN Returned(VerifyFail(IF app = "site" THEN "Invalid token" ELSE outcome.message))
    ELSE outcome

\* a call of verifyToken(token): what it ends in
VerifyCall(app, token, nowMs) ==
    IF token = <<TextPart(<<>>)>> THEN Returned(VerifyFail("Token is required"))
    ELSE VerifyCatch(app, VerifyTry(app, token, nowMs))

\* verifyToken(token) of application app, run at Date.now() = nowMs
verifyToken(app, token, nowMs) == VerifyCall(app, token, nowMs).value

-----------------------------------------------------------------------------
(* Report encryption: lib/server/crypto.ts.  PBKDF2 and AES-256-GCM are     *)
(* ideal: a derived key, a ciphertext and an authentication tag are terms,  *)
(* equal only when they were made from equal parts.  A base64 text is the   *)
(* buffer it encodes followed by extra characters outside the base64        *)
(* alphabet, which Buffer.from(text, 'base64') skips.                       *)

ALGORITHM == "aes-256-gcm"
KEY_LENGTH == 32
IV_LENGTH == 16
ITERATIONS == 310000

deriveKey(userId) ==
    [secret |-> JWT_SECRET, salt |-> Utf8Encode(userId),
     iterations |-> ITERATIONS, keylen |-> KEY_LENGTH]

\* randomBytes(size): the n-th value the generator can return
randomBytes(size, n) == [kind |-> "random", id |-> n, len |-> size]

\* buffer.toString('base64')
ToBase64(buf) == [b64 |-> buf, extra |-> <<>>]

\* Buffer.from(text, 'base64')
FromBase64(text) == text.b64

\* createCipheriv(ALGORITHM, key, iv): update(plain) and final()
GcmEncrypt(key, iv, plain) ==
    [kind |-> "aes", alg |-> ALGORITHM, key |-> key, iv |-> iv, pt |-> plain]

\* cipher.getAuthTag(): the 16-byte tag of the ciphertext under the key and iv
GcmTag(key, iv, ciphertext) ==
    [kind |-> "tag", alg |-> ALGORITHM, key |-> key, iv |-> iv, ct |-> ciphertext, len |-> 16]

\* the tag lengths decipher.setAuthTag accepts when createDecipheriv was given
\* no authTagLength
AuthTagLengthOk(len) == len \in {4, 8, 12, 13, 14, 15, 16}

\* decipher.setAuthTag(authTag) does not throw
SetAuthTagOk(authTag) == authTag.kind = "tag" /\ AuthTagLengthOk(authTag.len)

\* decipher.final() does not throw: the given tag is the leading authTag.len
\* bytes of the tag of the ciphertext under the key and iv
GcmFinalOk(key, iv, ciphertext, authTag) ==
    [authTag EXCEPT !.len = 16] = GcmTag(key, iv, ciphertext)

\* decipher.update(ciphertext), for a ciphertext final() accepts
GcmDecrypt(key, iv, ciphertext) == ciphertext.pt

\* decrypted.toString('latin1'), a variant of toString('utf8')
Latin1Decode(bytes) == bytes

\* decrypted.toString('utf8')
BufferToString(bytes) == Utf8Decode(bytes)

\* n: the value randomBytes returns in this call
encryptData(data, userId, n) ==
    LET key == deriveKey(userId)
        iv == randomBytes(IV_LENGTH, n)
        encrypted == GcmEncrypt(key, iv, Utf8Encode(data))
        authTag == GcmTag(key, iv, encrypted)
    IN [ciphertext |-> ToBase64(encrypted), iv |-> ToBase64(iv), authTag |-> ToBase64(authTag)]

\* ok = FALSE: the call throws
decryptData(encrypted, userId) ==
    LET key == deriveKey(userId)
        iv == FromBase64(encrypted.iv)
        ciphertext == FromBase64(encrypted.ciphertext)
        authTag == FromBase64(encrypted.authTag)
    IN IF SetAuthTagOk(authTag) /\ GcmFinalOk(key, iv, ciphertext, authTag)
       THEN [ok |-> TRUE, data |-> BufferToString(GcmDecrypt(key, iv, ciphertext))]
       ELSE [ok |-> FALSE, data |-> <<>>]

encryptReport(genotypes, insights, userId, n1, n2) ==
    [encryptedGenotypes |-> encryptData(JSONstringify(genotypes), userId, n1),
     encryptedInsights |-> encryptData(JSONstringify(insights), userId, n2)]

\* ok = FALSE: the call throws
decryptReport(encryptedGenotypes, encryptedInsights, userId) ==
    LET g == decryptData(encryptedGenotypes, userId)
        i == decryptData(encryptedInsights, userId)
        genotypes == JSONparse(g.data)
        insights == JSONparse(i.data)
    IN IF g.ok /\ i.ok /\ genotypes.ok /\ insights.ok
       THEN [ok |-> TRUE, genotypes |-> genotypes.v, insights |-> insights.v]
       ELSE [ok |-> FALSE, genotypes |-> UNDEFINED, insights |-> UNDEFINED]

-----------------------------------------------------------------------------
(* The geni-site server: the users and Polar, the magic links, the report   *)
(* rows and the report load.  An e-mail address is a string; a magic-link   *)
(* token is the number of the randomBytes(32) value it was made from, and   *)
(* sha256 is ideal.                                                         *)

\* s.toLowerCase()
ToLowerCase(s) == [i \in DOMAIN s |-> IF s[i] >= 65 /\ s[i] <= 90 THEN s[i] + 32 ELSE s[i]]

\* the characters trim() strips and \s matches, among those the model uses
WhiteSpace == {9, 10, 11, 12, 13, 32, 160}

\* s.trim()
Trim(s) ==
    LET keep == {i \in DOMAIN s : s[i] \notin WhiteSpace}
    IN IF keep = {} THEN <<>>
       ELSE SubSeq(s, CHOOSE i \in keep : \A j \in keep : i <= j,
                   CHOOSE i \in keep : \A j \in keep : i >= j)

\* the row of an e-mail address in the users table; the id stands for its uuid
UserRow(tbl, email) == [id |-> <<117, 58>> \o email, email |-> email, plan |-> tbl[email]]

\* getUserByEmail: <<>> is null
getUserByEmail(tbl, email) ==
    LET e == ToLowerCase(email)
    IN IF e \in DOMAIN tbl /\ tbl[e] # "none" THEN <<UserRow(tbl, e)>> ELSE <<>>

\* upsertUser: the table after INSERT .. ON CONFLICT (email) DO UPDATE SET plan = CASE ..
upsertUser(tbl, email, plan) ==
    [tbl EXCEPT ![ToLowerCase(email)] =
        IF @ = "none" THEN plan
        ELSE IF @ = "free" /\ plan = "paid" THEN "paid" ELSE @]

\* value.key of a value that is not null or undefined: an array, a string
\* or a number has no property of the names read here
Prop(value, key) == IF value.t = "obj" THEN ObjGet(value.items, key) ELSE UNDEFINED

\* typeof value === 'string' && value
NonEmptyString(value) == value.t = "str" /\ value.s # <<>>

\* a variant of the function that reads customer.email first
extractEmailCustomerFirst(checkout) ==
    LET customerEmail == Prop(checkout, "customerEmail")
        customer == Prop(checkout, "customer")
    IN IF ~Truthy(checkout) \/ checkout.t \notin {"obj", "arr"} THEN NULL
       ELSE IF Truthy(customer) /\ NonEmptyString(Prop(customer, "email"))
            THEN Prop(customer, "email")
       ELSE IF NonEmptyString(customerEmail) THEN customerEmail
       ELSE NULL

extractEmailFromCheckout(checkout) ==
    LET customerEmail == Prop(checkout, "customerEmail")
        customer == Prop(checkout, "customer")
    IN IF ~Truthy(checkout) \/ checkout.t \notin {"obj", "arr"} THEN NULL
       ELSE IF NonEmptyString(customerEmail) THEN customerEmail
       ELSE IF Truthy(customer) /\ NonEmptyString(Prop(customer, "email"))
            THEN Prop(customer, "email")
       ELSE NULL

\* createHash('sha256').update(token).digest('hex')
hashToken(token) == [sha256 |-> token]

MAGIC_LINK_MINUTES == 15

\* createMagicLink(email): the table after the insert
createMagicLink(links, email, token, nowMs) ==
    Append(links, [identifier |-> ToLowerCase(email), tokenHash |-> hashToken(token),
                   expiresAt |-> nowMs + MAGIC_LINK_MINUTES * 60 * 1000,
                   used |-> FALSE, createdAt |-> nowMs])

\* a variant of the where clause below that also takes a link at its expiry time
LinkMatchesAtExpiry(link, tokenHash, nowMs) ==
    link.tokenHash = tokenHash /\ ~link.used /\ link.expiresAt >= nowMs

\* the where clause of verifyMagicLink's select
LinkMatches(link, tokenHash, nowMs) ==
    link.tokenHash = tokenHash /\ ~link.used /\ link.expiresAt > nowMs

\* a variant of the condition below that asks Polar only for unknown addresses
NeedsPurchaseCheckNoUser(user) == user = <<>>

\* !user || user.plan !== 'paid'
NeedsPurchaseCheck(user) == user = <<>> \/ user[1].plan # "paid"

\* a variant that only refuses the empty address
InvalidEmailEmptyOnly(email) == email = <<>>

\* !email || !email.includes('@')
InvalidEmail(email) == email = <<>> \/ \A i \in DOMAIN email : email[i] # 64

\* json(body, { status }) and the error page of a handler that threw
RestoreResponse(bodyEmail, status, error) ==
    [email |-> bodyEmail, status |-> status, error |-> error]

NoRestore == RestoreResponse(UNDEFINED, 0, "")

\* the payload the routes hand to generateAndLogToken
UserPayload(user) ==
    MakePayload("site", StrVal(user.id), StrVal(user.email),
                StrVal(IF user.plan = "paid" THEN Txt.paid ELSE Txt.free))

\* createReport: the table after the insert
createReport(rows, input) == Append(rows, input)

\* getReportByUserId: the user's first row; <<>> is null
getReportByUserId(rows, userId) ==
    LET mine == {i \in DOMAIN rows : rows[i].userId = userId}
    IN IF mine = {} THEN <<>> ELSE <<rows[CHOOSE i \in mine : \A j \in mine : i <= j]>>

\* the load of /report once the token is verified and the user's row found:
\* both ciphertexts are decrypted with the row's one iv and authTag
LoadSavedReport(row, userId) ==
    LET part(ciphertext) == [ciphertext |-> ciphertext, iv |-> row.iv, authTag |-> row.authTag]
        decrypted == decryptReport(part(row.encryptedGenotypes),
                                   part(row.encryptedInsights), userId)
    IN IF decrypted.ok
       THEN [threw |-> FALSE, isPaid |-> TRUE, savedInsights |-> decrypted.insights]
       ELSE [threw |-> TRUE, isPaid |-> FALSE, savedInsights |-> NULL]

\* the load of /report for a verified token's user
LoadForUser(rows, userId) ==
    LET report == getReportByUserId(rows, userId)
    IN IF report = <<>>
       THEN [threw |-> FALSE, isPaid |-> TRUE, savedInsights |-> NULL]
       ELSE LoadSavedReport(report[1], userId)

\* the load of /report for a request with this cookie (<<>>: no cookie);
\* threw = TRUE: the load throws
ReportLoad(cookieValue, rows, nowMs) ==
    LET token == cookieValue
        result == verifyToken("site", token, nowMs)
    IN IF token = <<>> \/ token = <<TextPart(<<>>)>> \/ ~result.success
       THEN [threw |-> FALSE, isPaid |-> FALSE, savedInsights |-> NULL]
       ELSE LoadForUser(rows, ObjGet(result.user, Txt.userId).s)

-----------------------------------------------------------------------------
(* The parts that are not running in a specification *)

JwtIdle ==
    /\ jwtApp = "site" /\ jwtPayload = <<>> /\ jwtNow = 0 /\ jwtIssuedAt = 0
    /\ jwtGen = [ok |-> FALSE, error |-> "not run", token |-> <<>>]
    /\ jwtRes = [res |-> VerifyFail("not run"), at |-> 0]
    /\ jwtPc = "off" /\ jwtTicks = 0

CryIdle ==
    /\ cryIn = <<>> /\ cryEnc = <<>> /\ cryDec = <<>> /\ cryRep = <<>> /\ cryPc = "off"

SrvIdle ==
    /\ clock = 0 /\ ticks = 0 /\ users = <<>> /\ polarCustomers = {} /\ magicLinks = <<>>
    /\ reqs = <<>> /\ cookie = <<>> /\ sessions = <<>> /\ reports = <<>> /\ loaded = <<>>
    /\ restored = <<>>

ParIdle ==
    /\ parIn = <<>> /\ parOut = <<>> /\ parPc = "off"

PgIdle ==
    /\ pgData = <<>> /\ pgStored = <<>> /\ pgInsights = <<>> /\ pgIsLoaded = FALSE
    /\ pgGoto = FALSE /\ pgView = <<>> /\ pgPc = "off"

CkIdle ==
    /\ ckJar = {} /\ ckLog = <<>>

WuIdle ==
    /\ wuUsers = <<>> /\ wuCalls = <<>>

FnIdle ==
    /\ fnIn = <<>> /\ fnOut = <<>> /\ fnPc = "off"

HkIdle ==
    /\ hkPath = <<>> /\ hkJar = {} /\ hkDb = <<>> /\ hkOut = <<>> /\ hkHops = 0
    /\ hkPc = "off"

\* every part but the one that runs is idle
IdleExcept(part) ==
    /\ IF part = "jwt" THEN TRUE ELSE JwtIdle
    /\ IF part = "cry" THEN TRUE ELSE CryIdle
    /\ IF part = "srv" THEN TRUE ELSE SrvIdle
    /\ IF part = "par" THEN TRUE ELSE ParIdle
    /\ IF part = "pg" THEN TRUE ELSE PgIdle
    /\ IF part = "ck" THEN TRUE ELSE CkIdle
    /\ IF part = "wu" THEN TRUE ELSE WuIdle
    /\ IF part = "fn" THEN TRUE ELSE FnIdle
    /\ IF part = "hk" THEN TRUE ELSE HkIdle

-----------------------------------------------------------------------------
(* The token functions as a state machine: a payload is chosen, then       *)
(* generateToken runs, time passes, and verifyToken runs on the token.     *)

MaxJwtTicks == 2

\* payload field values tried: missing, empty, plain, and with the characters
\* that JSON escapes, that UTF-8 encodes in two bytes and that base64 maps to
\* '+' and '/'
JwtInit ==
    /\ jwtApp \in {"site", "web"}
    /\ \E u \in {UNDEFINED, StrVal(<<>>), StrVal(<<117, 49>>), StrVal(<<117, 62, 63, 233>>)},
          e \in {UNDEFINED, StrVal(<<>>), StrVal(<<97, 64, 120, 46, 105, 111>>),
                 StrVal(<<34, 97, 92, 64, 63, 62>>)},
          t \in {UNDEFINED, StrVal(Txt.paid), StrVal(Txt.free)} :
           jwtPayload = MakePayload(jwtApp, u, e, t)
    /\ jwtNow \in {0, 1999}
    /\ jwtIssuedAt = 0
    /\ jwtGen = [ok |-> FALSE, error |-> "not run", token |-> <<>>]
    /\ jwtRes = [res |-> VerifyFail("not run"), at |-> 0]
    /\ jwtPc = "start"
    /\ jwtTicks = 0
    /\ IdleExcept("jwt")

JwtGenerate ==
    /\ jwtPc = "start"
    /\ jwtGen' = generateToken(jwtApp, jwtPayload, jwtNow)
    /\ jwtIssuedAt' = jwtNow
    /\ jwtPc' = "generated"
    /\ UNCHANGED <<jwtApp, jwtPayload, jwtNow, jwtRes, jwtTicks, nonJwtVars>>

\* time passes: a millisecond, a second, or a whole token lifetime
JwtTick ==
    /\ jwtPc \in {"start", "generated", "verified"}
    /\ jwtTicks < MaxJwtTicks
    /\ \E dt \in {1, 1000, ExpiryMs(jwtApp)} : jwtNow' = jwtNow + dt
    /\ jwtTicks' = jwtTicks + 1
    /\ UNCHANGED <<jwtApp, jwtPayload, jwtIssuedAt, jwtGen, jwtRes, jwtPc, nonJwtVars>>

JwtVerify ==
    /\ jwtPc \in {"generated", "verified"}
    /\ jwtGen.ok
    /\ jwtRes' = [res |-> verifyToken(jwtApp, jwtGen.token, jwtNow), at |-> jwtNow]
    /\ jwtPc' = "verified"
    /\ UNCHANGED <<jwtApp, jwtPayload, jwtNow, jwtIssuedAt, jwtGen, jwtTicks, nonJwtVars>>

JwtNext == JwtGenerate \/ JwtTick \/ JwtVerify

SpecJwt == JwtInit /\ [][JwtNext]_vars

\* the exp claim of the token generateToken made at jwtIssuedAt, in seconds
JwtExp == (jwtIssuedAt \div 1000) + (ExpiryMs(jwtApp) \div 1000)

JwtNonEmpty(v) == v.t = "str" /\ Len(v.s) > 0

(* C9: for every payload with non-empty userId and email, generateToken      *)
(* returns a token, and verifyToken on that token, run no later than the     *)
(* token's exp, returns success = true with a user whose userId, email and   *)
(* plan/role equal the payload's, and the user has no iat and no exp.        *)
C9_RoundTrip ==
    (JwtNonEmpty(ObjGet(jwtPayload, Txt.userId)) /\ JwtNonEmpty(ObjGet(jwtPayload, Txt.email)))
    => /\ jwtPc \in {"generated", "verified"} => jwtGen.ok /\ Len(jwtGen.token) = 3
       /\ (jwtPc = "verified" /\ (jwtRes.at \div 1000) <= JwtExp)
          => /\ jwtRes.res.success
             /\ \A key \in {Txt.userId, Txt.email, ThirdKey(jwtApp)} :
                    ObjGet(jwtRes.res.user, key) = ObjGet(jwtPayload, key)
             /\ ObjKeys(jwtRes.res.user) \cap {Txt.iat, Txt.exp} = {}

\* a token of a payload with all three fields, verified after time has passed
C9_Witness ==
    /\ jwtPc = "verified" /\ jwtRes.res.success
    /\ jwtRes.at > jwtIssuedAt
    /\ Len(jwtPayload) = 3
    /\ ObjGet(jwtRes.res.user, Txt.userId) = StrVal(<<117, 62, 63, 233>>)

(* C10: generateToken throws and returns no token whenever the payload's     *)
(* userId or email is missing or empty.                                      *)
C10_GenerateThrows ==
    (jwtPc \in {"generated", "verified"}
     /\ \E key \in {Txt.userId, Txt.email} : ~JwtNonEmpty(ObjGet(jwtPayload, key)))
    => ~jwtGen.ok /\ jwtGen.token = <<>> /\ jwtGen.error # ""

\* generateToken has run on a payload with a userId and an empty email
C10_Witness ==
    /\ jwtPc = "generated" /\ ~jwtGen.ok
    /\ JwtNonEmpty(ObjGet(jwtPayload, Txt.userId))
    /\ ObjGet(jwtPayload, Txt.email) = StrVal(<<>>)

\* the payload inside the token generateToken returned
JwtTokenPayload == JSONparse(base64UrlDecode(jwtGen.token[2].txt)).v.items

(* C12: a token is valid only for its lifetime: generateToken sets exp = iat *)
(* + the lifetime (1 hour in geni-web, 7 days in geni-site), and verifyToken *)
(* returns success = false for the correctly signed token once the current   *)
(* time in seconds is greater than exp.                                      *)
C12_TokenLifetime ==
    (jwtPc \in {"generated", "verified"} /\ jwtGen.ok)
    => /\ ObjGet(JwtTokenPayload, Txt.iat) = NumVal(jwtIssuedAt \div 1000)
       /\ ObjGet(JwtTokenPayload, Txt.exp)
              = NumVal(ObjGet(JwtTokenPayload, Txt.iat).n
                       + (IF jwtApp = "web" THEN 60 * 60 ELSE 7 * 24 * 60 * 60))
       /\ (jwtPc = "verified" /\ (jwtRes.at \div 1000) > ObjGet(JwtTokenPayload, Txt.exp).n)
              => ~jwtRes.res.success /\ jwtRes.res.user = <<>>

\* a token was verified one second after its exp and turned down as expired
C12_Witness ==
    /\ jwtPc = "verified" /\ jwtGen.ok
    /\ (jwtRes.at \div 1000) = ObjGet(JwtTokenPayload, Txt.exp).n + 1
    /\ jwtRes.res.message = "Token has expired"

-----------------------------------------------------------------------------
(* verifyToken on tokens that are not what generateToken returned: a token   *)
(* is generated, time passes, and verifyToken runs on a text made from it.   *)

\* header.payload signed with the server's secret
SignedToken(header, payload) ==
    <<header, TextPart(payload), HmacSignature(JWT_SECRET, <<header.txt, payload>>)>>

\* payloads that JSON.parse throws on or that parse to null: '{', the empty
\* text, '{"a":1' cut short, a text outside the base64 alphabet, and 'null'
BadPayloads ==
    {base64UrlEncode(<<123>>), <<>>, base64UrlEncode(<<123, 34, 97, 34, 58, 49>>),
     <<33, 33>>, base64UrlEncode(<<110, 117, 108, 108>>)}

\* the texts made from a token: '', 'x', two parts, four parts, a signature
\* that is some text, one made with another key, the payload or the header
\* of another token under this signature, and bad payloads correctly signed
AlteredTokens(token) ==
    {<<TextPart(<<>>)>>, <<TextPart(<<120>>)>>, <<token[1], token[2]>>,
     token \o <<TextPart(<<120>>)>>,
     <<token[1], token[2], TextPart(<<115, 105, 103>>)>>,
     <<token[1], token[2], HmacSignature("guess", <<token[1].txt, token[2].txt>>)>>,
     <<token[1], TextPart(base64UrlEncode(<<123, 125>>)), token[3]>>,
     <<TextPart(base64UrlEncode(<<123, 125>>)), token[2], token[3]>>}
    \cup {SignedToken(token[1], payload) : payload \in BadPayloads}

JwtAlteredInit ==
    /\ jwtApp \in {"site", "web"}
    /\ \E u \in {StrVal(<<117, 49>>), StrVal(<<117, 62, 63, 233>>)},
          t \in {UNDEFINED, StrVal(Txt.paid)} :
           jwtPayload = MakePayload(jwtApp, u, StrVal(<<97, 64, 120, 46, 105, 111>>), t)
    /\ jwtNow \in {0, 1999}
    /\ jwtIssuedAt = 0
    /\ jwtGen = [ok |-> FALSE, error |-> "not run", token |-> <<>>]
    /\ jwtRes = [res |-> VerifyFail("not run"), at |-> 0, thrown |-> FALSE, token |-> <<>>]
    /\ jwtPc = "start"
    /\ jwtTicks = 0
    /\ IdleExcept("jwt")

JwtVerifyAltered ==
    /\ jwtPc \in {"generated", "altered"}
    /\ jwtGen.ok
    /\ \E token \in AlteredTokens(jwtGen.token) :
           LET call == VerifyCall(jwtApp, token, jwtNow)
           IN jwtRes' = [res |-> call.value, at |-> jwtNow, thrown |-> call.thrown,
                         token |-> token]
    /\ jwtPc' = "altered"
    /\ UNCHANGED <<jwtApp, jwtPayload, jwtNow, jwtIssuedAt, jwtGen, jwtTicks, nonJwtVars>>

JwtAlteredNext == JwtGenerate \/ JwtTick \/ JwtVerifyAltered

SpecJwtAltered == JwtAlteredInit /\ [][JwtAlteredNext]_vars

(* C11: verifyToken reports every failure as a value and never throws: for   *)
(* the empty token it returns success = false with 'Token is required', and  *)
(* for a text that is not three dot-separated parts, whose signature does    *)
(* not match its header and payload, or whose payload cannot be decoded, it  *)
(* returns success = false with a message and no user.                       *)
C11_FailuresAreValues ==
    jwtPc = "altered"
    => /\ ~jwtRes.thrown
       /\ ~jwtRes.res.success /\ jwtRes.res.message # "" /\ jwtRes.res.user = <<>>
       /\ jwtRes.token = <<TextPart(<<>>)>> => jwtRes.res.message = "Token is required"
       /\ (Len(jwtRes.token) # 3 /\ jwtRes.token # <<TextPart(<<>>)>>)
              => jwtRes.res.message = "Invalid token format"
       /\ (Len(jwtRes.token) = 3 /\ jwtRes.token[3] # SignedToken(jwtRes.token[1],
                                                                  jwtRes.token[2].txt)[3])
              => jwtRes.res.message = "Invalid token signature"

\* verifyToken has run on a correctly signed token whose payload is no JSON
\* and answered with the message of its catch clause
C11_Witness ==
    /\ jwtPc = "altered" /\ Len(jwtRes.token) = 3
    /\ jwtRes.token[2].txt \in BadPayloads
    /\ jwtRes.token[3] = HmacSignature(JWT_SECRET, <<jwtRes.token[1].txt, jwtRes.token[2].txt>>)
    /\ jwtRes.res.message \in {"Invalid token", "SyntaxError", "TypeError"}

-----------------------------------------------------------------------------
(* The report encryption as a state machine: a text or a report is          *)
(* encrypted for a user, then decryptData runs on the result or on a text   *)
(* altered in some of its fields, for the same or another user, and         *)
(* decryptReport runs on the two encrypted parts.                            *)

MaxIv == 2

CryUsers == {<<117, 49>>, <<117, 50>>}

CryTexts == {<<>>, <<65, 71>>, <<233, 34, 8364>>}

\* the ways a field of an EncryptedData is altered: left alone; a newline
\* appended to the base64 text; the buffer cut to its first len bytes
CryAlter(text, how) ==
    IF how = "same" THEN text
    ELSE IF how = "newline" THEN [text EXCEPT !.extra = <<Ch.newline>>]
    ELSE IF how = "cut3" THEN [text EXCEPT !.b64.len = 3]
    ELSE IF how = "cut4" THEN [text EXCEPT !.b64.len = 4]
    ELSE [text EXCEPT !.b64.len = 12]

\* the report: genotype lists [], [{rsid, gt}] and one with two entries;
\* insight lists [] and one insight with a text, a number and a list of texts
CryInit ==
    LET snp(r, g) == ObjVal(<<[k |-> <<114, 115, 105, 100>>, v |-> StrVal(r)],
                              [k |-> <<103, 116>>, v |-> StrVal(g)]>>)
        genotypes == {ArrVal(<<>>),
                      ArrVal(<<snp(<<114, 115, 49>>, <<65, 71>>)>>),
                      ArrVal(<<snp(<<114, 115, 49>>, <<65, 71>>), snp(<<105, 50>>, <<67, 67>>)>>)}
        insight == ObjVal(<<[k |-> <<116, 105, 116, 108, 101>>, v |-> StrVal(<<233, 34, 92>>)],
                            [k |-> <<110>>, v |-> NumVal(40)],
                            [k |-> <<116, 111, 100, 111>>,
                             v |-> ArrVal(<<StrVal(<<97>>), StrVal(<<>>)>>)]>>)
    IN /\ \E u \in CryUsers, d \in CryTexts, g \in genotypes,
             i \in {ArrVal(<<>>), ArrVal(<<insight>>)} :
              cryIn = [userId |-> u, data |-> d, genotypes |-> g, insights |-> i]
       /\ cryEnc = <<>> /\ cryDec = <<>> /\ cryRep = <<>>
       /\ cryPc = "start"
       /\ IdleExcept("cry")

CryEncryptData ==
    /\ cryPc = "start"
    /\ \E n \in 1..MaxIv : cryEnc' = <<encryptData(cryIn.data, cryIn.userId, n)>>
    /\ cryPc' = "data"
    /\ UNCHANGED <<cryIn, cryDec, cryRep, nonCryVars>>

\* decryptData on a text whose fields come from the encrypted text or from
\* another encryption, each possibly altered
CryDecryptData ==
    /\ cryPc = "data"
    /\ \E u2 \in CryUsers, d2 \in CryTexts, n2 \in 1..MaxIv, other \in CryUsers,
          from \in [{"ciphertext", "iv", "authTag"} -> {"e", "other"}],
          how \in {"same", "newline", "cut3", "cut4", "cut12"},
          field \in {"ciphertext", "iv", "authTag"} :
           LET e == cryEnc[1]
               e2 == encryptData(d2, other, n2)
               pick(f) == IF from[f] = "e" THEN e[f] ELSE e2[f]
               alter(f) == IF f = field /\ (f = "authTag" \/ how \in {"same", "newline"})
                           THEN CryAlter(pick(f), how) ELSE pick(f)
               given == [ciphertext |-> alter("ciphertext"), iv |-> alter("iv"),
                         authTag |-> alter("authTag")]
           IN cryDec' = <<[encrypted |-> given, userId |-> u2,
                           res |-> decryptData(given, u2)]>>
    /\ cryPc' = "dataDone"
    /\ UNCHANGED <<cryIn, cryEnc, cryRep, nonCryVars>>

CryEncryptReport ==
    /\ cryPc = "start"
    /\ \E n1 \in 1..MaxIv, n2 \in 1..MaxIv :
           cryEnc' = <<encryptReport(cryIn.genotypes, cryIn.insights, cryIn.userId, n1, n2)>>
    /\ cryPc' = "report"
    /\ UNCHANGED <<cryIn, cryDec, cryRep, nonCryVars>>

\* decryptReport on the two parts, in either order, for the same or another user
CryDecryptReport ==
    /\ cryPc = "report"
    /\ \E u2 \in CryUsers, swap \in BOOLEAN :
           LET eg == IF swap THEN cryEnc[1].encryptedInsights ELSE cryEnc[1].encryptedGenotypes
               ei == IF swap THEN cryEnc[1].encryptedGenotypes ELSE cryEnc[1].encryptedInsights
           IN cryRep' = <<[encryptedGenotypes |-> eg, encryptedInsights |-> ei, userId |-> u2,
                           res |-> decryptReport(eg, ei, u2)]>>
    /\ cryPc' = "reportDone"
    /\ UNCHANGED <<cryIn, cryEnc, cryDec, nonCryVars>>

CryNext == CryEncryptData \/ CryDecryptData \/ CryEncryptReport \/ CryDecryptReport

SpecCrypto == CryInit /\ [][CryNext]_vars

C5_TamperFails ==
    (/\ cryPc = "dataDone"
     /\ \/ cryDec[1].userId # cryIn.userId
        \/ cryDec[1].encrypted.ciphertext # cryEnc[1].ciphertext
        \/ cryDec[1].encrypted.iv # cryEnc[1].iv
        \/ cryDec[1].encrypted.authTag # cryEnc[1].authTag
     /\ \A d \in CryTexts, n \in 1..MaxIv :
            cryDec[1].encrypted # encryptData(d, cryDec[1].userId, n))
    => ~cryDec[1].res.ok

\* the first four bytes of the tag were given as the authTag, everything else
\* as encrypted, and decryptData returned the text
C5_Witness ==
    /\ cryPc = "dataDone" /\ cryDec[1].res.ok
    /\ cryDec[1].userId = cryIn.userId
    /\ cryDec[1].encrypted.ciphertext = cryEnc[1].ciphertext
    /\ cryDec[1].encrypted.iv = cryEnc[1].iv
    /\ cryDec[1].encrypted.authTag.b64.len = 4
    /\ cryDec[1].res.data = cryIn.data /\ cryIn.data # <<>>

-----------------------------------------------------------------------------
(* The geni-site server as a state machine: a browser runs checkout-success  *)
(* loads, restore requests, magic-link verifications (up to two at a time,   *)
(* one database statement per step) and report loads, and sets what cookie   *)
(* it likes, while time passes.                                              *)

\* how many times the clock moves by milliseconds
MaxTicks == 2

\* how many magic links are created while verifications race
MaxLinks == 2

\* how many report rows are written
MaxReports == 1

\* how many /auth/verify requests can be in flight at the same time
MaxSlots == 2

\* a@x and b@x
SrvEmails == {<<97, 64, 120>>, <<98, 64, 120>>}

\* the checkouts Polar knows: paid by A@x, paid by a customer a@x, still open
\* for b@x, and paid without an e-mail address
SrvCheckouts ==
    LET status(s) == [k |-> "status", v |-> StrVal(s)]
    IN {ObjVal(<<status(Txt.succeeded), [k |-> "customerEmail", v |-> StrVal(<<65, 64, 120>>)]>>),
        ObjVal(<<status(Txt.succeeded), [k |-> "customerEmail", v |-> NULL],
                 [k |-> "customer",
                  v |-> ObjVal(<<[k |-> "email", v |-> StrVal(<<97, 64, 120>>)]>>)]>>),
        ObjVal(<<status(<<111, 112, 101, 110>>),
                 [k |-> "customerEmail", v |-> StrVal(<<98, 64, 120>>)]>>),
        ObjVal(<<status(Txt.succeeded), [k |-> "customerEmail", v |-> StrVal(<<>>)]>>)}

\* the cookies a user makes up for the free account b@x: the empty string,
\* some text, and a token naming the account as paid, signed with a key of
\* the user's own
SrvForged ==
    LET made == generateToken("site", UserPayload([id |-> <<117, 58, 98, 64, 120>>,
                                                    email |-> <<98, 64, 120>>, plan |-> "paid"]),
                              2 * TOKEN_EXPIRY_MS).token
    IN [empty |-> <<TextPart(<<>>)>>,
        garbage |-> <<TextPart(<<120>>)>>,
        wrongKey |-> <<made[1], made[2], HmacSignature("guess", <<made[1].txt, made[2].txt>>)>>,
        payload |-> made[2]]

NoReq == [pc |-> "idle", token |-> 0, link |-> 0, outcome |-> ""]

\* a@x has no account or a free one, b@x has a free account and never pays
SrvInit ==
    /\ clock = 0 /\ ticks = 0
    /\ \E p \in {"none", "free"} :
           users = [e \in SrvEmails |-> IF e = <<97, 64, 120>> THEN p ELSE "free"]
    /\ polarCustomers \in {{}, {<<97, 64, 120>>}}
    /\ magicLinks = <<>> /\ sessions = <<>>
    /\ reqs = <<NoReq>>
    /\ cookie = <<>>
    /\ reports = <<>>
    /\ loaded = [seq |-> 0,
                 out |-> [threw |-> FALSE, isPaid |-> FALSE, savedInsights |-> NULL]]
    /\ restored = NoRestore
    /\ IdleExcept("srv")

\* time passes: a millisecond, or a millisecond less than the life of a
\* magic link
Tick ==
    /\ ticks < MaxTicks
    /\ \E dt \in {1, MAGIC_LINK_MINUTES * 60 * 1000 - 1} : clock' = clock + dt
    /\ ticks' = ticks + 1
    /\ UNCHANGED <<users, polarCustomers, magicLinks, reqs, cookie, sessions, reports, loaded,
                   restored, nonSrvVars>>

\* time passes: the life of a session token, or a second more
TickDays ==
    /\ clock < TOKEN_EXPIRY_MS
    /\ \E dt \in {TOKEN_EXPIRY_MS, TOKEN_EXPIRY_MS + 1000} : clock' = clock + dt
    /\ ticks' = ticks + 1
    /\ UNCHANGED <<users, polarCustomers, magicLinks, reqs, cookie, sessions, reports, loaded,
                   restored, nonSrvVars>>

\* the load of /checkout/success
CheckoutSuccess ==
    \E checkout \in SrvCheckouts :
        LET email == extractEmailFromCheckout(checkout)
            tbl == upsertUser(users, ToLowerCase(email.s), "paid")
            user == UserRow(tbl, ToLowerCase(email.s))
            token == generateToken("site", UserPayload(user), clock).token
        IN /\ IF ObjGet(checkout.items, "status") # StrVal(Txt.succeeded) \/ email = NULL
              THEN UNCHANGED <<users, cookie>>
              ELSE /\ users' = tbl
                   /\ cookie' = token
           /\ UNCHANGED <<clock, ticks, polarCustomers, magicLinks, reqs, sessions, reports,
                          loaded, restored, nonSrvVars>>

\* body.email of a POST /auth/restore: missing, " A@x", "b@x" or "ax"
SrvRestoreBodies == {UNDEFINED, StrVal(<<32, 65, 64, 120>>), StrVal(<<98, 64, 120>>),
                     StrVal(<<97, 120>>)}

\* POST /auth/restore; bodies: the values body.email may have; cap: how many
\* magic links the table may come to hold; observed: whether the response is
\* kept in `restored`; sent is what sendMagicLinkEmail returns
Restore(bodies, cap, observed) ==
    \E bodyEmail \in bodies, sent \in BOOLEAN :
        LET email == Trim(ToLowerCase(bodyEmail.s))
            user == getUserByEmail(users, email)
            isPolarCustomer == email \in polarCustomers
            response ==
                IF bodyEmail.t \notin {"undefined", "null", "str"}
                THEN RestoreResponse(bodyEmail, 500, "TypeError")
                ELSE IF bodyEmail.t # "str" \/ InvalidEmail(email)
                THEN RestoreResponse(bodyEmail, 400, "Invalid email")
                ELSE IF NeedsPurchaseCheck(user) /\ ~isPolarCustomer
                THEN RestoreResponse(bodyEmail, 404, "No purchase found")
                ELSE IF sent THEN RestoreResponse(bodyEmail, 200, "")
                ELSE RestoreResponse(bodyEmail, 500, "Failed to send email")
        IN /\ IF response.status \in {400, 404} \/ response.error = "TypeError"
              THEN UNCHANGED <<users, magicLinks, sessions>>
              ELSE /\ Len(magicLinks) < cap
                   /\ users' = IF NeedsPurchaseCheck(user)
                               THEN upsertUser(users, email, "paid") ELSE users
                   /\ magicLinks' = createMagicLink(magicLinks, email, Len(magicLinks) + 1,
                                                    clock)
                   /\ sessions' = Append(sessions, 0)
           /\ restored' = IF observed THEN response ELSE restored
           /\ UNCHANGED <<clock, ticks, polarCustomers, reqs, cookie, reports, loaded,
                          nonSrvVars>>

\* GET /auth/verify, first statement of verifyMagicLink: the select, for a
\* token that was mailed or (0) one that never was
VerifySelect ==
    \E c \in DOMAIN reqs, token \in 0..Len(magicLinks) :
        LET found == {i \in DOMAIN magicLinks :
                          LinkMatches(magicLinks[i], hashToken(token), clock)}
        IN /\ reqs[c].pc \in {"idle", "done"}
           /\ reqs' = [reqs EXCEPT ![c] =
                  IF found = {}
                  THEN [pc |-> "done", token |-> token, link |-> 0, outcome |-> "expired_link"]
                  ELSE [pc |-> "selected", token |-> token,
                        link |-> CHOOSE i \in found : TRUE, outcome |-> ""]]
           /\ UNCHANGED <<clock, ticks, users, polarCustomers, magicLinks, cookie, sessions,
                          reports, loaded, restored, nonSrvVars>>

\* second statement of verifyMagicLink: the update; it returns link.identifier
VerifyUpdate ==
    \E c \in DOMAIN reqs :
        /\ reqs[c].pc = "selected"
        /\ magicLinks' = [i \in DOMAIN magicLinks |->
               IF magicLinks[i].tokenHash = hashToken(reqs[c].token)
               THEN [magicLinks[i] EXCEPT !.used = TRUE] ELSE magicLinks[i]]
        /\ reqs' = [reqs EXCEPT ![c].pc = "verified"]
        /\ UNCHANGED <<clock, ticks, users, polarCustomers, cookie, sessions, reports, loaded,
                       restored, nonSrvVars>>

\* the rest of GET /auth/verify: the user is looked up and the session issued
VerifyFinish ==
    \E c \in DOMAIN reqs :
        LET user == getUserByEmail(users, magicLinks[reqs[c].link].identifier)
            token == generateToken("site", UserPayload(user[1]), clock).token
        IN /\ reqs[c].pc = "verified"
           /\ IF user = <<>>
              THEN /\ reqs' = [reqs EXCEPT ![c].pc = "done", ![c].outcome = "user_not_found"]
                   /\ UNCHANGED <<cookie, sessions>>
              ELSE /\ reqs' = [reqs EXCEPT ![c].pc = "done", ![c].outcome = "report"]
                   /\ cookie' = token
                   /\ sessions' = [sessions EXCEPT ![reqs[c].link] = @ + 1]
           /\ UNCHANGED <<clock, ticks, users, polarCustomers, magicLinks, reports, loaded,
                          restored, nonSrvVars>>

\* the browser's user sets the cookie: to nothing, to one made up, or to the
\* token it holds with the payload replaced
ForgeCookie ==
    \E kind \in {"none", "empty", "garbage", "wrongKey", "tampered"} :
        /\ kind = "tampered" => Len(cookie) = 3
        /\ cookie' = IF kind = "none" THEN <<>>
                     ELSE IF kind = "tampered" THEN <<cookie[1], SrvForged.payload, cookie[3]>>
                     ELSE SrvForged[kind]
        /\ UNCHANGED <<clock, ticks, users, polarCustomers, magicLinks, reqs, sessions,
                       reports, loaded, restored, nonSrvVars>>

\* a report is encrypted with encryptReport and its row written with
\* createReport: the row has one iv and one authTag, taken from either part
\* (the row's insights field is not a column: it records what was encrypted)
StoreReport ==
    \E e \in SrvEmails, ivOf \in {"g", "i"}, tagOf \in {"g", "i"} :
        LET userId == UserRow(users, e).id
            genotypes == ArrVal(<<>>)
            insights == ArrVal(<<ObjVal(<<[k |-> <<116>>, v |-> StrVal(<<76, 233>>)]>>)>>)
            enc == encryptReport(genotypes, insights, userId, 1, 2)
            part(which) == IF which = "g" THEN enc.encryptedGenotypes
                           ELSE enc.encryptedInsights
        IN /\ users[e] # "none"
           /\ Len(reports) < MaxReports
           /\ reports' = createReport(reports,
                  [userId |-> userId,
                   encryptedGenotypes |-> enc.encryptedGenotypes.ciphertext,
                   encryptedInsights |-> enc.encryptedInsights.ciphertext,
                   iv |-> part(ivOf).iv, authTag |-> part(tagOf).authTag,
                   snpCount |-> Len(genotypes.items), format |-> "23andme",
                   insights |-> insights])
           /\ UNCHANGED <<clock, ticks, users, polarCustomers, magicLinks, reqs, cookie,
                          sessions, loaded, restored, nonSrvVars>>

\* the load of /report; seq tells one load from the next
LoadReport ==
    /\ loaded' = [seq |-> 1 - loaded.seq, out |-> ReportLoad(cookie, reports, clock)]
    /\ UNCHANGED <<clock, ticks, users, polarCustomers, magicLinks, reqs, cookie, sessions,
                   reports, restored, nonSrvVars>>

\* the paywall: every route, one verification at a time, one magic link, and
\* the clock moved by the life of a session token
Next ==
    \/ TickDays \/ CheckoutSuccess \/ Restore(SrvRestoreBodies, 1, FALSE) \/ VerifySelect \/ VerifyUpdate
    \/ VerifyFinish \/ ForgeCookie \/ StoreReport \/ LoadReport

Spec == SrvInit /\ [][Next]_vars

\* the magic links on their own, with two verifications in flight
LinksInit ==
    /\ clock = 0 /\ ticks = 0
    /\ users \in {[e \in SrvEmails |-> p] : p \in {"none", "free", "paid"}}
    /\ polarCustomers = {<<97, 64, 120>>}
    /\ magicLinks = <<>> /\ sessions = <<>>
    /\ reqs = [c \in 1..MaxSlots |-> NoReq]
    /\ cookie = <<>>
    /\ reports = <<>>
    /\ loaded = [seq |-> 0,
                 out |-> [threw |-> FALSE, isPaid |-> FALSE, savedInsights |-> NULL]]
    /\ restored = NoRestore
    /\ IdleExcept("srv")

LinksNext == Tick \/ Restore(SrvRestoreBodies, MaxLinks, FALSE) \/ VerifySelect \/ VerifyUpdate \/ VerifyFinish

SpecLinks == LinksInit /\ [][LinksNext]_vars


\* the verifications of link n that returned its e-mail identifier and have
\* not yet issued their session
ReturnedIdentifier(n) == {c \in DOMAIN reqs : reqs[c].pc = "verified" /\ reqs[c].link = n}

(* C1: a magic-link token is single-use: whatever the interleaving of the    *)
(* verifyMagicLink calls made with it, at most one of them returns the       *)
(* e-mail identifier, so at most one session is ever issued per link.        *)
C1_SingleUse ==
    \A n \in DOMAIN magicLinks : sessions[n] + Cardinality(ReturnedIdentifier(n)) <= 1

\* two requests with the token of link 1 were in flight together and each
\* has been given a session
C1_Witness ==
    /\ Len(magicLinks) >= 1 /\ sessions[1] = 2
    /\ \A c \in DOMAIN reqs : reqs[c].link = 1 /\ reqs[c].outcome = "report"

\* a step of verifyMagicLink's select made by handler c
IsSelectStep(c) == reqs[c].pc \in {"idle", "done"} /\ reqs'[c] # reqs[c]

(* C2: a magic link expires 15 minutes after it is created: its expiresAt is *)
(* the creation time plus 15 minutes, and verifyMagicLink, for a token whose *)
(* link has an expiresAt that is not later than the current time, returns    *)
(* null and leaves the link as it is, used or not.                           *)
C2_LinkExpires ==
    /\ [](\A n \in DOMAIN magicLinks :
              magicLinks[n].expiresAt = magicLinks[n].createdAt + 15 * 60 * 1000)
    /\ [][\A c \in DOMAIN reqs :
              (/\ IsSelectStep(c)
               /\ reqs'[c].token \in DOMAIN magicLinks
               /\ magicLinks[reqs'[c].token].expiresAt <= clock)
              => /\ reqs'[c].pc = "done" /\ reqs'[c].outcome = "expired_link"
                 /\ magicLinks' = magicLinks]_vars

\* a verification made exactly at a link's expiry time, the link never used,
\* was turned down
C2_Witness ==
    \E c \in DOMAIN reqs :
        /\ reqs[c].pc = "done" /\ reqs[c].outcome = "expired_link"
        /\ reqs[c].token \in DOMAIN magicLinks
        /\ magicLinks[reqs[c].token].expiresAt = clock
        /\ ~magicLinks[reqs[c].token].used

\* a step of the /report load
IsLoadStep == loaded' # loaded

\* the cookie holds a token signed with the server's secret whose exp is not
\* before the time in seconds
SignedUnexpired(cookieValue, nowMs) ==
    /\ Len(cookieValue) = 3
    /\ cookieValue[3] = HmacSignature(JWT_SECRET, <<cookieValue[1].txt, cookieValue[2].txt>>)
    /\ LET parsed == JSONparse(base64UrlDecode(cookieValue[2].txt))
       IN parsed.ok /\ ObjGet(parsed.v.items, Txt.exp).n >= nowMs \div 1000

\* the user id in the token's payload
TokenUserId(cookieValue) ==
    ObjGet(JSONparse(base64UrlDecode(cookieValue[2].txt)).v.items, Txt.userId).s

\* the token names a user whose row in the users table has plan 'paid'
TokenOfPaidUser(cookieValue) ==
    \E e \in SrvEmails : users[e] = "paid" /\ UserRow(users, e).id = TokenUserId(cookieValue)

(* C3: a stored report can be read back: for a row written from the output  *)
(* of encryptReport, with its one iv and one authTag, the /report load of    *)
(* the row's user decrypts both ciphertexts without error and returns        *)
(* exactly the insights that were encrypted.                                 *)
C3_StoredReportReadable ==
    [][(/\ IsLoadStep
        /\ SignedUnexpired(cookie, clock)
        /\ getReportByUserId(reports, TokenUserId(cookie)) # <<>>)
       => /\ ~loaded'.out.threw
          /\ loaded'.out.savedInsights
                 = getReportByUserId(reports, TokenUserId(cookie))[1].insights]_vars

\* a paying user's report is stored and the user's load of /report threw
C3_Witness ==
    /\ loaded.out.threw
    /\ SignedUnexpired(cookie, clock) /\ TokenOfPaidUser(cookie)
    /\ getReportByUserId(reports, TokenUserId(cookie)) # <<>>

(* C7: the report is paywalled on the server: after any sequence of          *)
(* checkout-success loads, restore requests, magic-link verifications and    *)
(* report loads, a /report load returns isPaid = true only when the cookie   *)
(* holds a correctly signed, unexpired token of a user whose stored plan is  *)
(* 'paid'; with no token, an invalid one or an expired one it returns        *)
(* isPaid = false and savedInsights = null.                                  *)
C7_Paywall ==
    [][IsLoadStep =>
          /\ loaded'.out.isPaid
                 => SignedUnexpired(cookie, clock) /\ TokenOfPaidUser(cookie)
          /\ ~SignedUnexpired(cookie, clock)
                 => ~loaded'.out.isPaid /\ loaded'.out.savedInsights = NULL]_vars

\* a user restored a purchase, followed the magic link and was shown the
\* report as paid
C7_Witness ==
    /\ loaded.out.isPaid
    /\ SignedUnexpired(cookie, clock) /\ TokenOfPaidUser(cookie)
    /\ \E n \in DOMAIN magicLinks : magicLinks[n].used /\ sessions[n] = 1


-----------------------------------------------------------------------------
(* The genetic-file parser: lib/domain/genetics/parser.ts.  A Map is the     *)
(* sequence of its values in insertion order; null is <<>> where a record    *)
(* or a string is expected and 0 where a line number is.                     *)

TARGET_SNPS ==
    <<<<114, 115, 52, 57, 56, 56, 50, 51, 53>>,
      <<114, 115, 55, 54, 50, 53, 53, 49>>,
      <<114, 115, 54, 55, 49>>,
      <<114, 115, 55, 49, 51, 53, 57, 56>>,
      <<114, 115, 54, 48, 50, 54, 54, 50>>,
      <<114, 115, 49, 56, 49, 53, 55, 51, 57>>,
      <<114, 115, 55, 49, 56, 49, 56, 54, 54>>,
      <<114, 115, 49, 56, 48, 48, 48, 49, 50>>,
      <<114, 115, 54, 55, 57, 54, 50, 48>>,
      <<114, 115, 50, 50, 56, 50, 54, 55, 57>>,
      <<114, 115, 49, 56, 48, 49, 50, 54, 48>>,
      <<114, 115, 54, 50, 54, 53>>,
      <<114, 115, 49, 56, 48, 48, 55, 57, 53>>,
      <<114, 115, 49, 55, 52, 53, 52, 54>>,
      <<114, 115, 49, 56, 48, 49, 49, 51, 51>>,
      <<114, 115, 49, 56, 48, 48, 53, 54, 50>>>>

\* s.toUpperCase(), for the ASCII letters
ToUpperCase(s) == [i \in DOMAIN s |-> IF s[i] >= 97 /\ s[i] <= 122 THEN s[i] - 32 ELSE s[i]]

\* s.startsWith(prefix)
StartsWith(s, prefix) == Len(s) >= Len(prefix) /\ SubSeq(s, 1, Len(prefix)) = prefix

\* s.includes(part)
Includes(s, part) ==
    \E i \in 1..(Len(s) - Len(part) + 1) : SubSeq(s, i, i + Len(part) - 1) = part

\* s.split(c) for a one-character separator
RECURSIVE SplitOn(_, _)
SplitOn(s, c) ==
    LET at == {i \in DOMAIN s : s[i] = c}
    IN IF at = {} THEN <<s>>
       ELSE LET i == CHOOSE k \in at : \A j \in at : k <= j
            IN <<SubSeq(s, 1, i - 1)>> \o SplitOn(SubSeq(s, i + 1, Len(s)), c)

\* s.split(/\r?\n/)
SplitLines(s) ==
    LET pieces == SplitOn(s, 10)
    IN [i \in DOMAIN pieces |->
           IF i < Len(pieces) /\ pieces[i] # <<>> /\ pieces[i][Len(pieces[i])] = 13
           THEN SubSeq(pieces[i], 1, Len(pieces[i]) - 1)
           ELSE pieces[i]]

\* s.split(/\s+/)
RECURSIVE SplitSpaces(_)
SplitSpaces(s) ==
    LET at == {i \in DOMAIN s : s[i] \in WhiteSpace}
    IN IF at = {} THEN <<s>>
       ELSE LET i == CHOOSE k \in at : \A j \in at : k <= j
                after == {k \in i..Len(s) : s[k] \notin WhiteSpace}
            IN IF after = {} THEN <<SubSeq(s, 1, i - 1), <<>>>>
               ELSE <<SubSeq(s, 1, i - 1)>>
                    \o SplitSpaces(SubSeq(s, CHOOSE k \in after : \A j \in after : k <= j,
                                          Len(s)))

\* the number a text of decimal digits denotes
RECURSIVE DecimalValue(_)
DecimalValue(digits) ==
    IF digits = <<>> THEN 0
    ELSE 10 * DecimalValue(SubSeq(digits, 1, Len(digits) - 1)) + (digits[Len(digits)] - 48)

\* parseInt(str, 10): nan = TRUE is NaN
parseInt(str) ==
    LET keep == {i \in DOMAIN str : str[i] \notin WhiteSpace}
        t == IF keep = {} THEN <<>>
             ELSE SubSeq(str, CHOOSE i \in keep : \A j \in keep : i <= j, Len(str))
        signed == t # <<>> /\ t[1] \in {43, 45}
        d == IF signed THEN Tail(t) ELSE t
        stop == {i \in DOMAIN d : d[i] < 48 \/ d[i] > 57}
        n == IF stop = {} THEN Len(d) ELSE (CHOOSE i \in stop : \A j \in stop : i <= j) - 1
    IN IF n = 0 THEN [nan |-> TRUE, n |-> 0]
       ELSE [nan |-> FALSE,
             n |-> (IF signed /\ t[1] = 45 THEN -1 ELSE 1) * DecimalValue(SubSeq(d, 1, n))]

\* a variant that does not sort the two alleles
normalizeGenotypeUnsorted(genotype) ==
    LET upper == Trim(ToUpperCase(genotype))
    IN IF Len(upper) = 1 THEN upper \o upper ELSE upper

normalizeGenotype(genotype) ==
    LET upper == Trim(ToUpperCase(genotype))
    IN IF Len(upper) = 1 THEN upper \o upper
       ELSE IF Len(upper) = 2
       THEN IF upper[1] <= upper[2] THEN upper ELSE <<upper[2], upper[1]>>
       ELSE upper

\* how many lines detectFormat looks at
FORMAT_SCAN_LINES == 50

detectFormat(lines) ==
    LET first == SubSeq(lines, 1, IF Len(lines) < FORMAT_SCAN_LINES THEN Len(lines)
                                  ELSE FORMAT_SCAN_LINES)
        named == {i \in DOMAIN first : \/ Includes(first[i], Txt.name23andMe)
                                       \/ Includes(first[i], Txt.nameAncestryDNA)}
    IN IF named = {} THEN "unknown"
       ELSE IF Includes(first[CHOOSE i \in named : \A j \in named : i <= j], Txt.name23andMe)
       THEN "23andme"
       ELSE "ancestry"

\* the parts parseLine splits a line into
LineParts(line) ==
    LET tabs == SplitOn(line, 9)
    IN IF Len(tabs) < 4 THEN SplitSpaces(line) ELSE tabs

\* parseLine: <<>> is null
parseLine(line) ==
    LET parts == LineParts(line)
        rsidLower == ToLowerCase(parts[1])
        position == parseInt(parts[3])
        genotype == parts[4]
    IN IF line = <<>> \/ StartsWith(line, Txt.hash) THEN <<>>
       ELSE IF Len(parts) < 4 THEN <<>>
       ELSE IF ~StartsWith(rsidLower, Txt.rs) /\ ~StartsWith(rsidLower, Txt.i) THEN <<>>
       ELSE IF position.nan THEN <<>>
       ELSE IF genotype = Txt.noCall \/ genotype = Txt.zeros \/ genotype = <<>> THEN <<>>
       ELSE <<[rsid |-> rsidLower, chromosome |-> ToUpperCase(parts[2]),
               position |-> position.n, genotype |-> normalizeGenotype(genotype)]>>

\* data.set(snpData.rsid, snpData)
MapSet(data, snpData) ==
    IF \E k \in DOMAIN data : data[k].rsid = snpData.rsid
    THEN [k \in DOMAIN data |-> IF data[k].rsid = snpData.rsid THEN snpData ELSE data[k]]
    ELSE Append(data, snpData)

\* map.get(rsid): <<>> is undefined
MapGet(data, rsid) ==
    IF \E k \in DOMAIN data : data[k].rsid = rsid
    THEN <<data[CHOOSE k \in DOMAIN data : data[k].rsid = rsid]>>
    ELSE <<>>

\* what the parse functions hold before their loop
ParseStart ==
    [data |-> <<>>, sampleLines |-> <<>>, sampleSNPs |-> <<>>,
     targetSNPsStatus |-> [snp \in {TARGET_SNPS[k] : k \in DOMAIN TARGET_SNPS} |->
                              [found |-> FALSE, genotype |-> <<>>, line |-> 0]],
     skippedLines |-> 0, is23andMe |-> FALSE]

\* the loop body of both parse functions from sampleLines on, for the trimmed
\* line number i (counted from 1)
ParseDataLine(acc, line, i) ==
    LET sampled == [acc EXCEPT !.sampleLines = IF Len(@) < 5 THEN Append(@, line) ELSE @]
        snpData == parseLine(line)
    IN IF snpData = <<>> THEN [sampled EXCEPT !.skippedLines = @ + 1]
       ELSE [sampled EXCEPT
                !.data = MapSet(@, snpData[1]),
                !.sampleSNPs = IF Len(@) < 10 THEN Append(@, snpData[1].rsid) ELSE @,
                !.targetSNPsStatus =
                    IF snpData[1].rsid \in DOMAIN @
                    THEN [@ EXCEPT ![snpData[1].rsid] =
                             [found |-> TRUE, genotype |-> snpData[1].genotype, line |-> i]]
                    ELSE @]

\* the ParseResult both parse functions build
ParseResult(acc, lines, format) ==
    [data |-> acc.data, snpCount |-> Len(acc.data), warnings |-> <<>>, format |-> format,
     debug |-> [sampleLines |-> acc.sampleLines, sampleSNPs |-> acc.sampleSNPs,
                targetSNPsStatus |-> acc.targetSNPsStatus, totalLines |-> Len(lines),
                skippedLines |-> acc.skippedLines]]

\* the body of parseAncestry's for loop for line i
AncestryStep(acc, lines, i) ==
    IF Trim(lines[i]) = <<>> \/ StartsWith(Trim(lines[i]), Txt.hash)
    THEN [acc EXCEPT !.skippedLines = @ + 1]
    ELSE ParseDataLine(acc, Trim(lines[i]), i)

\* the for loop of parseAncestry over the lines lo..hi in their order; the
\* first half of the lines is worked through before the second
RECURSIVE AncestryLoop(_, _, _, _)
AncestryLoop(lines, lo, hi, acc) ==
    IF lo > hi THEN acc
    ELSE IF lo = hi THEN AncestryStep(acc, lines, lo)
    ELSE LET half == AncestryLoop(lines, lo, (lo + hi) \div 2, acc)
         IN  IF half.skippedLines >= 0
             THEN AncestryLoop(lines, (lo + hi) \div 2 + 1, hi, half)
             ELSE half

parseAncestry(fileContent) ==
    LET lines == SplitLines(fileContent)
    IN ParseResult(AncestryLoop(lines, 1, Len(lines), ParseStart), lines, "ancestry")

\* the body of parse23andMe's for loop for line i
Step23andMe(acc, lines, i) ==
    IF Trim(lines[i]) = <<>> THEN [acc EXCEPT !.skippedLines = @ + 1]
    ELSE IF Includes(Trim(lines[i]), Txt.name23andMe)
    THEN [acc EXCEPT !.is23andMe = TRUE, !.skippedLines = @ + 1]
    ELSE IF StartsWith(Trim(lines[i]), Txt.hash) THEN [acc EXCEPT !.skippedLines = @ + 1]
    ELSE ParseDataLine(acc, Trim(lines[i]), i)

\* the for loop of parse23andMe over the lines lo..hi in their order; the
\* first half of the lines is worked through before the second
RECURSIVE Loop23andMe(_, _, _, _)
Loop23andMe(lines, lo, hi, acc) ==
    IF lo > hi THEN acc
    ELSE IF lo = hi THEN Step23andMe(acc, lines, lo)
    ELSE LET half == Loop23andMe(lines, lo, (lo + hi) \div 2, acc)
         IN  IF half.skippedLines >= 0
             THEN Loop23andMe(lines, (lo + hi) \div 2 + 1, hi, half)
             ELSE half

parse23andMe(fileContent) ==
    LET lines == SplitLines(fileContent)
        acc == Loop23andMe(lines, 1, Len(lines), ParseStart)
    IN ParseResult(acc, lines, IF acc.is23andMe THEN "23andme" ELSE "unknown")

parseGeneticFile(fileContent) ==
    IF detectFormat(SplitLines(fileContent)) = "ancestry"
    THEN parseAncestry(fileContent)
    ELSE parse23andMe(fileContent)

-----------------------------------------------------------------------------
(* The parser as a state machine: a file is uploaded and one of the parse    *)
(* functions runs on it.                                                     *)

\* how many lines a file has after its header
MaxParLines == 2

\* the first line of a file: none, AncestryDNA's or 23andMe's
ParHeaders ==
    {<<>>,
     <<<<35, 65, 110, 99, 101, 115, 116, 114, 121, 68, 78, 65>>>>,
     <<<<35, 32, 50, 51, 97, 110, 100, 77, 101>>>>}

\* the lines of a file: AncestryDNA's five columns (a heterozygous and a
\* homozygous one), 23andMe's four, four separated by spaces with one allele,
\* a comment, a no-call, one whose position is no number, and an empty one
ParLines ==
    {<<114, 115, 52, 57, 56, 56, 50, 51, 53, 9, 50, 9, 49, 51, 9, 67, 9, 84>>,
     <<114, 115, 52, 57, 56, 56, 50, 51, 53, 9, 50, 9, 49, 51, 9, 84, 9, 84>>,
     <<114, 115, 54, 55, 49, 9, 49, 50, 9, 55, 9, 71, 65>>,
     <<114, 115, 54, 55, 49, 32, 49, 50, 32, 55, 32, 97>>,
     <<35, 120>>,
     <<105, 53, 9, 77, 84, 9, 57, 9, 45, 45>>,
     <<114, 115, 49, 9, 49, 9, 120, 9, 65, 65>>,
     <<>>}

\* lines.join(eol)
RECURSIVE Join(_, _)
Join(lines, eol) ==
    IF lines = <<>> THEN <<>>
    ELSE IF Len(lines) = 1 THEN lines[1]
    ELSE lines[1] \o eol \o Join(Tail(lines), eol)

ParFiles ==
    {Join(header \o body, eol) :
        header \in ParHeaders,
        body \in UNION {[1..n -> ParLines] : n \in 0..MaxParLines},
        eol \in {<<10>>, <<13, 10>>}}

ParInit ==
    /\ parIn \in ParFiles
    /\ parOut = <<>>
    /\ parPc = "start"
    /\ IdleExcept("par")

ParseGeneticFile ==
    /\ parPc = "start"
    /\ parOut' = [fn |-> "parseGeneticFile", result |-> parseGeneticFile(parIn)]
    /\ parPc' = "parsed"
    /\ UNCHANGED <<parIn, nonParVars>>

ParseAncestry ==
    /\ parPc = "start"
    /\ parOut' = [fn |-> "parseAncestry", result |-> parseAncestry(parIn)]
    /\ parPc' = "parsed"
    /\ UNCHANGED <<parIn, nonParVars>>

Parse23andMe ==
    /\ parPc = "start"
    /\ parOut' = [fn |-> "parse23andMe", result |-> parse23andMe(parIn)]
    /\ parPc' = "parsed"
    /\ UNCHANGED <<parIn, nonParVars>>

ParNext == ParseGeneticFile \/ ParseAncestry \/ Parse23andMe

SpecParser == ParInit /\ [][ParNext]_vars

\* the line of the file that a stored rsid was last set from
LastLineOf(lines, rsid) ==
    LET from == {i \in DOMAIN lines :
                    /\ parseLine(Trim(lines[i])) # <<>>
                    /\ parseLine(Trim(lines[i]))[1].rsid = rsid}
    IN Trim(lines[CHOOSE i \in from : \A j \in from : i >= j])

\* the alleles on a data line: the genotype column of four columns, allele1
\* and allele2 of five
ObservedAlleles(line) ==
    IF Len(LineParts(line)) >= 5 THEN LineParts(line)[4] \o LineParts(line)[5]
    ELSE LineParts(line)[4]

(* C6: every genotype parseGeneticFile stores is the pair of alleles on its  *)
(* data line: the normalized genotype column of a 4-column 23andMe line, and *)
(* for a 5-column AncestryDNA line the genotype built from both allele1 and  *)
(* allele2, so that a heterozygous line is never stored as homozygous.       *)
C6_BothAlleles ==
    (parPc = "parsed" /\ parOut.fn = "parseGeneticFile")
    => \A k \in DOMAIN parOut.result.data :
           parOut.result.data[k].genotype
               = normalizeGenotype(ObservedAlleles(
                     LastLineOf(SplitLines(parIn), parOut.result.data[k].rsid)))

\* an AncestryDNA file with the line rs4988235 2 13 C T was parsed and the
\* genotype stored for rs4988235 is CC
C6_Witness ==
    /\ parPc = "parsed" /\ parOut.fn = "parseGeneticFile"
    /\ parOut.result.format = "ancestry"
    /\ LET snp == MapGet(parOut.result.data, TARGET_SNPS[1])
       IN /\ snp # <<>>
          /\ snp[1].genotype = <<67, 67>>
          /\ LineParts(LastLineOf(SplitLines(parIn), TARGET_SNPS[1]))[4] = <<67>>
          /\ LineParts(LastLineOf(SplitLines(parIn), TARGET_SNPS[1]))[5] = <<84>>

-----------------------------------------------------------------------------
(* The report page: routes/report/+page.svelte.  An insight is the JSON      *)
(* value that stands for it.                                                 *)

FREE_LIMIT == 5

\* array.slice(from, to) for indexes that are not negative
Slice(array, from, to) == SubSeq(array, from + 1, IF to < Len(array) THEN to ELSE Len(array))

\* the $effect of the page, in the browser: the states it sets and whether
\* it calls goto('/')
PageEffect(data, stored) ==
    LET parsed == JSONparse(stored.text)
        insights == IF parsed.v.t = "obj" THEN ObjGet(parsed.v.items, Txt.insights)
                    ELSE UNDEFINED
        away == [insights |-> <<>>, isLoaded |-> FALSE, goto |-> TRUE]
    IN IF Truthy(data.savedInsights) /\ Len(data.savedInsights.items) > 0
       THEN [insights |-> data.savedInsights.items, isLoaded |-> TRUE, goto |-> FALSE]
       ELSE IF ~stored.present \/ stored.text = <<>> THEN away
       ELSE IF ~parsed.ok THEN away
       ELSE [insights |-> IF Truthy(insights) THEN insights.items ELSE <<>>,
             isLoaded |-> TRUE, goto |-> FALSE]

\* nothing rendered yet
NoView ==
    [branch |-> "none", restoreNav |-> FALSE, shown |-> 0, total |-> 0, cards |-> <<>>,
     remainingCount |-> 0, lockedCards |-> <<>>]

\* what the template renders: the branch taken, the numbers in its subtitle,
\* the unlocked cards, the count handed to PaywallBanner and the locked
\* cards (the category sections of the paid branch are left out)
PageRender(data, insights, isLoaded) ==
    LET freeInsights == Slice(insights, 0, FREE_LIMIT)
        lockedCount == IF Len(insights) - FREE_LIMIT > 0 THEN Len(insights) - FREE_LIMIT ELSE 0
    IN IF ~isLoaded
       THEN [NoView EXCEPT !.branch = "loading", !.restoreNav = ~data.isPaid]
       ELSE IF data.isPaid
       THEN [NoView EXCEPT !.branch = "paid", !.total = Len(insights)]
       ELSE [branch |-> "preview", restoreNav |-> TRUE, shown |-> FREE_LIMIT,
             total |-> Len(insights), cards |-> freeInsights,
             remainingCount |-> lockedCount,
             lockedCards |-> Slice(insights, FREE_LIMIT, FREE_LIMIT + 3)]

-----------------------------------------------------------------------------
(* The report page as a state machine: the page is mounted with what the     *)
(* server load returned and what sessionStorage holds, its effect runs, and  *)
(* the template renders.                                                     *)

\* how many insights a report has
MaxInsights == 9

\* a report of n insights
PgInsights(n) == ArrVal([i \in 1..n |-> NumVal(i)])

\* what the server load can return
PgLoads ==
    {[isPaid |-> FALSE, savedInsights |-> NULL], [isPaid |-> TRUE, savedInsights |-> NULL]}
    \cup {[isPaid |-> TRUE, savedInsights |-> PgInsights(n)] : n \in 0..MaxInsights}

\* what sessionStorage can hold: nothing, the empty text, text that is no
\* JSON, {} and a pending report
PgStorage ==
    {[present |-> FALSE, text |-> <<>>], [present |-> TRUE, text |-> <<>>],
     [present |-> TRUE, text |-> <<120>>], [present |-> TRUE, text |-> <<123, 125>>]}
    \cup {[present |-> TRUE,
           text |-> JSONstringify(ObjVal(<<[k |-> Txt.insights, v |-> PgInsights(n)]>>))] :
             n \in 0..MaxInsights}

PgInit ==
    /\ pgData \in PgLoads
    /\ pgStored \in PgStorage
    /\ pgInsights = <<>> /\ pgIsLoaded = FALSE /\ pgGoto = FALSE
    /\ pgView = NoView
    /\ pgPc = "mounted"
    /\ IdleExcept("pg")

PgEffect ==
    /\ pgPc = "mounted"
    /\ LET after == PageEffect(pgData, pgStored)
       IN /\ pgInsights' = after.insights
          /\ pgIsLoaded' = after.isLoaded
          /\ pgGoto' = after.goto
    /\ pgPc' = "ran"
    /\ UNCHANGED <<pgData, pgStored, pgView, nonPgVars>>

PgRender ==
    /\ ~pgGoto
    /\ pgView' = PageRender(pgData, pgInsights, pgIsLoaded)
    /\ UNCHANGED <<pgData, pgStored, pgInsights, pgIsLoaded, pgGoto, pgPc, nonPgVars>>

PgNext == PgEffect \/ PgRender

SpecReportPage == PgInit /\ [][PgNext]_vars

(* C8: for a viewer with isPaid = false the page unlocks at most FREE_LIMIT  *)
(* = 5 insights: of n insights exactly min(n, 5) are rendered unlocked,      *)
(* lockedCount is max(0, n - 5), unlocked + lockedCount = n, and the number  *)
(* announced as shown is never more than n.                                  *)
C8_FreeLimit ==
    pgView.branch = "preview"
    => LET n == pgView.total
       IN /\ n = Len(pgInsights)
          /\ Len(pgView.cards) = (IF n < 5 THEN n ELSE 5)
          /\ pgView.remainingCount = (IF n - 5 > 0 THEN n - 5 ELSE 0)
          /\ Len(pgView.cards) + pgView.remainingCount = n
          /\ pgView.shown <= n

\* an unpaid viewer with three insights is told that five are shown
C8_Witness ==
    /\ pgView.branch = "preview" /\ ~pgData.isPaid
    /\ Len(pgInsights) = 3 /\ Len(pgView.cards) = 3
    /\ pgView.shown = 5 /\ pgView.total = 3

-----------------------------------------------------------------------------
(* The auth cookie: lib/server/auth/cookies.ts.  The Cookies object of a     *)
(* request is the browser's cookie jar: what one response sets or deletes is *)
(* what the next request gets.  undefined is <<>>.                           *)

AUTH_COOKIE_NAME == "geni_auth"

\* cookies.set(name, value, { path, .. }): the jar after it
CookiesSet(jar, name, value, path) ==
    {c \in jar : ~(c.name = name /\ c.path = path)}
    \cup {[name |-> name, path |-> path, value |-> value]}

\* cookies.get(name) in a request for a page: of the cookies of that name the
\* one with the longest path
CookiesGet(jar, name) ==
    LET named == {c \in jar : c.name = name}
    IN IF named = {} THEN <<>>
       ELSE (CHOOSE c \in named : \A d \in named : Len(c.path) >= Len(d.path)).value

\* cookies.delete(name, { path }): the jar after it
CookiesDelete(jar, name, path) == {c \in jar : ~(c.name = name /\ c.path = path)}

setAuthCookie(jar, token) == CookiesSet(jar, AUTH_COOKIE_NAME, token, <<47>>)

getAuthToken(jar) == CookiesGet(jar, AUTH_COOKIE_NAME)

\* a variant of clearAuthCookies that names another path
clearAuthCookiesOtherPath(jar) == CookiesDelete(jar, AUTH_COOKIE_NAME, <<47, 97>>)

clearAuthCookies(jar) == CookiesDelete(jar, AUTH_COOKIE_NAME, <<47>>)

-----------------------------------------------------------------------------
(* The auth cookie as a state machine: the routes set, read and clear the    *)
(* cookie in any order, and other code sets a cookie of its own.             *)

\* how many calls are made on the Cookies object
MaxCookieCalls == 5

\* the tokens set: '', a session token of a paying user and one made later
CkTokens ==
    {<<TextPart(<<>>)>>} \cup
    {generateToken("site", UserPayload([id |-> <<117, 49>>, email |-> <<97, 64, 120>>,
                                        plan |-> "paid"]), at).token : at \in {0, 5000}}

CkInit ==
    /\ ckJar = {} /\ ckLog = <<>>
    /\ IdleExcept("ck")

CkSetAuthCookie ==
    \E token \in CkTokens :
        /\ Len(ckLog) < MaxCookieCalls
        /\ ckJar' = setAuthCookie(ckJar, token)
        /\ ckLog' = Append(ckLog, [op |-> "set", token |-> token])
        /\ UNCHANGED nonCkVars

CkGetAuthToken ==
    /\ Len(ckLog) < MaxCookieCalls
    /\ ckLog' = Append(ckLog, [op |-> "get", token |-> getAuthToken(ckJar)])
    /\ UNCHANGED <<ckJar, nonCkVars>>

CkClearAuthCookies ==
    /\ Len(ckLog) < MaxCookieCalls
    /\ ckJar' = clearAuthCookies(ckJar)
    /\ ckLog' = Append(ckLog, [op |-> "clear", token |-> <<>>])
    /\ UNCHANGED nonCkVars

\* other code sets a cookie of another name
CkSetOther ==
    /\ Len(ckLog) < MaxCookieCalls
    /\ ckJar' = CookiesSet(ckJar, "theme", <<TextPart(<<100>>)>>, <<47>>)
    /\ ckLog' = Append(ckLog, [op |-> "other", token |-> <<>>])
    /\ UNCHANGED nonCkVars

CkNext == CkSetAuthCookie \/ CkGetAuthToken \/ CkClearAuthCookies \/ CkSetOther

SpecCookies == CkInit /\ [][CkNext]_vars

\* the calls before call i that set or cleared the auth cookie
CkWritesBefore(i) == {j \in 1..(i - 1) : ckLog[j].op \in {"set", "clear"}}

\* the last of them
CkLastWrite(i) == ckLog[CHOOSE j \in CkWritesBefore(i) : \A k \in CkWritesBefore(i) : j >= k]

(* C13: after setAuthCookie(cookies, t), getAuthToken returns exactly t, the *)
(* last token set; after clearAuthCookies, getAuthToken returns undefined    *)
(* and the user counts as not authenticated, until the next setAuthCookie.   *)
C13_CookieWorkflow ==
    \A i \in DOMAIN ckLog :
        (ckLog[i].op = "get" /\ CkWritesBefore(i) # {})
        => IF CkLastWrite(i).op = "set"
           THEN ckLog[i].token = CkLastWrite(i).token
           ELSE /\ ckLog[i].token = <<>>
                /\ ~ReportLoad(ckLog[i].token, <<>>, 0).isPaid

\* two tokens were set, the second was read back, the cookie was cleared and
\* then read as undefined
C13_Witness ==
    /\ Len(ckLog) = 5
    /\ ckLog[1].op = "set" /\ ckLog[2].op = "set" /\ ckLog[1].token # ckLog[2].token
    /\ ckLog[3] = [op |-> "get", token |-> ckLog[2].token]
    /\ ckLog[4].op = "clear"
    /\ ckLog[5] = [op |-> "get", token |-> <<>>]

-----------------------------------------------------------------------------
(* geni-web's createUser (db/operations/users.ts). Each await of the       *)
(* function is one database statement; calls made by requests that are     *)
(* served at the same time interleave between their statements.            *)

\* a row of the users table: a column not given is stored as null
WebUserRow(id, userData) ==
    [id |-> id, name |-> userData.name,
     email |-> IF userData.email = UNDEFINED THEN NULL ELSE userData.email,
     phone |-> IF userData.phone = UNDEFINED THEN NULL ELSE userData.phone,
     plan |-> "FreeTrial"]

\* findFirst where email = $1: a null column matches nothing
userExistsByEmail(rows, email) ==
    \E i \in 1..Len(rows) : rows[i].email.t = "str" /\ rows[i].email = email

userExistsByPhone(rows, phone) ==
    \E i \in 1..Len(rows) : rows[i].phone.t = "str" /\ rows[i].phone = phone

\* the checks that guard the insert
EmailChecked(userData) == Truthy(userData.email)
PhoneChecked(userData) == Truthy(userData.phone)

\* the unique index on users.email refuses a second row with the same text
EmailUniqueViolated(rows, userData) ==
    userData.email.t = "str" /\ userExistsByEmail(rows, userData.email)

WuThrew(call, message) == [call EXCEPT !.pc = "done", !.thrown = TRUE, !.message = message]

MaxWebRows == 2
WuSlots == {1, 2}
WuFields == {UNDEFINED, StrVal(<<>>), StrVal(<<97>>), StrVal(<<98>>)}
WuInputs == [name : {StrVal(<<110>>)}, email : WuFields, phone : WuFields]
WuNoCall == [pc |-> "none", thrown |-> FALSE, message |-> <<>>, checks |-> 0,
             userData |-> [name |-> StrVal(<<>>), email |-> UNDEFINED, phone |-> UNDEFINED]]

WuInit ==
    /\ wuUsers = <<>>
    /\ wuCalls = [s \in WuSlots |-> WuNoCall]
    /\ IdleExcept("wu")

WuInFlight == Cardinality({s \in WuSlots : wuCalls[s].pc \in {"email", "phone", "insert"}})

\* a request calls createUser(userData)
WuCall(s) ==
    /\ wuCalls[s].pc \in {"none", "done"}
    /\ Len(wuUsers) + WuInFlight < MaxWebRows
    /\ \E userData \in WuInputs :
          wuCalls' = [wuCalls EXCEPT ![s] =
                [pc |-> "email", thrown |-> FALSE, message |-> <<>>, checks |-> 0,
                 userData |-> userData]]
    /\ UNCHANGED <<wuUsers, nonWuVars>>

\* lines 31-36: the e-mail check
WuCheckEmail(s) ==
    /\ wuCalls[s].pc = "email"
    /\ LET call == wuCalls[s]
           userData == call.userData
       IN  wuCalls' = [wuCalls EXCEPT ![s] =
              IF EmailChecked(userData)
              THEN IF userExistsByEmail(wuUsers, userData.email)
                   THEN WuThrew([call EXCEPT !.checks = @ + 1],
                                <<"User with email ", userData.email, " already exists">>)
                   ELSE [call EXCEPT !.pc = "phone", !.checks = @ + 1]
              ELSE [call EXCEPT !.pc = "phone"]]
    /\ UNCHANGED <<wuUsers, nonWuVars>>

\* lines 39-44: the phone check
WuCheckPhone(s) ==
    /\ wuCalls[s].pc = "phone"
    /\ LET call == wuCalls[s]
           userData == call.userData
       IN  wuCalls' = [wuCalls EXCEPT ![s] =
              IF PhoneChecked(userData)
              THEN IF userExistsByPhone(wuUsers, userData.phone)
                   THEN WuThrew([call EXCEPT !.checks = @ + 1],
                                <<"User with phone ", userData.phone, " already exists">>)
                   ELSE [call EXCEPT !.pc = "insert", !.checks = @ + 1]
              ELSE [call EXCEPT !.pc = "insert"]]
    /\ UNCHANGED <<wuUsers, nonWuVars>>

\* line 46: the insert
WuInsert(s) ==
    /\ wuCalls[s].pc = "insert"
    /\ LET call == wuCalls[s]
       IN  IF EmailUniqueViolated(wuUsers, call.userData)
           THEN /\ wuCalls' = [wuCalls EXCEPT ![s] =
                      WuThrew(call, <<"duplicate key value violates unique constraint">>)]
                /\ UNCHANGED wuUsers
           ELSE /\ wuUsers' = Append(wuUsers, WebUserRow(Len(wuUsers) + 1, call.userData))
                /\ wuCalls' = [wuCalls EXCEPT ![s].pc = "done"]
    /\ UNCHANGED nonWuVars

WuNext == \E s \in WuSlots : WuCall(s) \/ WuCheckEmail(s) \/ WuCheckPhone(s) \/ WuInsert(s)

SpecWebUsers == WuInit /\ [][WuNext]_vars

\* the call in slot s ends in this step
WuEnds(s) == wuCalls[s].pc \in {"email", "phone", "insert"} /\ wuCalls'[s].pc = "done"

EmailTaken(userData) ==
    userData.email # UNDEFINED /\ userExistsByEmail(wuUsers, userData.email)

PhoneTaken(userData) ==
    userData.phone # UNDEFINED /\ userExistsByPhone(wuUsers, userData.phone)

EmailMessage(userData) == <<"User with email ", userData.email, " already exists">>
PhoneMessage(userData) == <<"User with phone ", userData.phone, " already exists">>

\* C14: a createUser call whose e-mail or phone a row of the table already
\* has ends by throwing 'User with email ... already exists' or 'User with
\* phone ... already exists' and leaves the table as it was; a call given
\* neither inserts its row without running an existence check.
C14_RefusesDuplicates ==
    [][\A s \in WuSlots : WuEnds(s) =>
          LET userData == wuCalls[s].userData
          IN  /\ (EmailTaken(userData) \/ PhoneTaken(userData)) =>
                    /\ wuUsers' = wuUsers
                    /\ wuCalls'[s].thrown
                    /\ wuCalls'[s].message = IF EmailTaken(userData)
                                             THEN EmailMessage(userData)
                                             ELSE PhoneMessage(userData)
              /\ (userData.email = UNDEFINED /\ userData.phone = UNDEFINED) =>
                    /\ wuCalls'[s].checks = 0
                    /\ wuUsers' = Append(wuUsers, WebUserRow(Len(wuUsers) + 1, userData))]_vars

\* a call was refused for its phone, and another inserted a row with no check
C14_Witness ==
    /\ \E s \in WuSlots : /\ wuCalls[s].pc = "done" /\ wuCalls[s].thrown
                          /\ wuCalls[s].message = PhoneMessage(wuCalls[s].userData)
    /\ \E i \in 1..Len(wuUsers) : wuUsers[i].email = NULL /\ wuUsers[i].phone = NULL

-----------------------------------------------------------------------------
(* extractEmailFromCheckout called on what a checkout lookup may return *)

\* values tried for a field that should hold an e-mail address
ExText(c) == StrVal(<<c, 64, 120>>)
ExFieldValues(c) == {StrVal(<<>>), ExText(c), NumVal(123), NumVal(0), NULL, ArrVal(<<>>)}

\* the members a field contributes: none when the field is missing
ExMembers(key, values) == {<<>>} \cup {<<[k |-> key, v |-> v]>> : v \in values}

ExCustomers ==
    {StrVal(<<99>>), NumVal(5), ObjVal(<<>>)}
    \cup {ObjVal(m) : m \in ExMembers("email", ExFieldValues(98) \cup {ExText(97)})}

ExCheckouts ==
    {UNDEFINED, NULL, StrVal(<<>>), ExText(97), NumVal(0), NumVal(7), ArrVal(<<>>)}
    \cup {ObjVal(<<[k |-> "status", v |-> StrVal(Txt.succeeded)]>> \o ce \o cu) :
             ce \in ExMembers("customerEmail", ExFieldValues(97)),
             cu \in ExMembers("customer", ExFieldValues(98) \cup ExCustomers)}

ExInit ==
    /\ fnIn \in ExCheckouts
    /\ fnOut = <<>>
    /\ fnPc = "start"
    /\ IdleExcept("fn")

ExtractEmail ==
    /\ fnPc = "start"
    /\ fnOut' = extractEmailFromCheckout(fnIn)
    /\ fnPc' = "done"
    /\ UNCHANGED <<fnIn, nonFnVars>>

ExNext == ExtractEmail

SpecExtractEmail == ExInit /\ [][ExNext]_vars

\* the value of a field of an object, written out over its members
ExField(value, key) ==
    IF value.t = "obj" /\ \E i \in DOMAIN value.items : value.items[i].k = key
    THEN {value.items[i].v : i \in {j \in DOMAIN value.items : value.items[j].k = key}}
    ELSE {}

ExStrings(values) == {v \in values : v.t = "str" /\ Len(v.s) > 0}

ExCustomerEmails(checkout) ==
    UNION {ExStrings(ExField(c, "email")) : c \in ExField(checkout, "customer")}

\* C15: the result is the checkout's customerEmail when that is a non-empty
\* string, otherwise customer.email when that is a non-empty string, and
\* null in every other case.
C15_ExtractEmail ==
    fnPc = "done" =>
        LET first == ExStrings(ExField(fnIn, "customerEmail"))
            second == ExCustomerEmails(fnIn)
        IN  /\ first # {} => fnOut \in first
            /\ (first = {} /\ second # {}) => fnOut \in second
            /\ (first = {} /\ second = {}) => fnOut = NULL

\* both fields hold an address and the two differ
C15_Witness ==
    /\ fnPc = "done"
    /\ ExStrings(ExField(fnIn, "customerEmail")) = {ExText(97)}
    /\ ExCustomerEmails(fnIn) = {ExText(98)}
    /\ fnOut = ExText(97)

-----------------------------------------------------------------------------
(* The trait rules (genetics/traits.ts of both apps). An interpretation is  *)
(* the record of the branch of interpret that returned it; `branch` 0 is    *)
(* the null interpret returns for a genotype no branch names.               *)

\* the genotype literals the rules compare against
GT == [AA |-> <<65, 65>>, AC |-> <<65, 67>>, AG |-> <<65, 71>>, CC |-> <<67, 67>>,
       CG |-> <<67, 71>>, CT |-> <<67, 84>>, GG |-> <<71, 71>>, GT |-> <<71, 84>>,
       TC |-> <<84, 67>>, TT |-> <<84, 84>>, XX |-> <<88, 88>>]

Trait(id, rsid, branches) == [id |-> id, rsid |-> rsid, branches |-> branches]

\* geni-web: TRAITS holds the lactose rule only
WEB_TRAITS ==
    <<Trait("lactose-tolerance", TARGET_SNPS[1], <<{GT.AG}, {GT.CT, GT.TC}, {GT.CC}>>)>>

\* geni-site: TRAITS, in the order of TRAIT_ORDER
SITE_TRAITS ==
    <<Trait("lactose-tolerance", TARGET_SNPS[1], <<{GT.AA, GT.AG}, {GT.GG}>>),
      Trait("caffeine-metabolism", TARGET_SNPS[2], <<{GT.AA}, {GT.AC, GT.CC}>>),
      Trait("alcohol-flush", TARGET_SNPS[3], <<{GT.GG}, {GT.AG, GT.AA}>>),
      Trait("bitter-taste", TARGET_SNPS[4], <<{GT.CC}, {GT.CG, GT.GG}>>),
      Trait("vitamin-b12", TARGET_SNPS[5], <<{GT.GG}, {GT.AG, GT.AA}>>),
      Trait("muscle-fiber-type", TARGET_SNPS[6], <<{GT.CC}, {GT.CT}, {GT.TT}>>),
      Trait("endurance-potential", TARGET_SNPS[7], <<{GT.GG}, {GT.AG, GT.AA}>>),
      Trait("recovery-speed", TARGET_SNPS[8], <<{GT.GG}, {GT.AG, GT.AA}>>),
      Trait("achilles-injury-risk", TARGET_SNPS[9], <<{GT.AA}, {GT.AG, GT.GG}>>),
      Trait("vitamin-d-levels", TARGET_SNPS[10], <<{GT.GG}, {GT.GT, GT.TT}>>),
      Trait("sleep-depth", TARGET_SNPS[11], <<{GT.AA}, {GT.AG, GT.GG}>>),
      Trait("stress-response", TARGET_SNPS[12], <<{GT.CC}, {GT.CT, GT.TT}>>),
      Trait("inflammation-tendency", TARGET_SNPS[13], <<{GT.GG}, {GT.CG, GT.CC}>>),
      Trait("omega3-conversion", TARGET_SNPS[14], <<{GT.CC}, {GT.CT, GT.TT}>>),
      Trait("folate-metabolism", TARGET_SNPS[15], <<{GT.GG}, {GT.AG}, {GT.AA}>>),
      Trait("iron-absorption", TARGET_SNPS[16], <<{GT.GG}, {GT.AG}, {GT.AA}>>)>>

TRAITS(app) == IF app = "web" THEN WEB_TRAITS ELSE SITE_TRAITS

\* trait.interpret(genotype): the first branch whose condition holds
interpret(trait, genotype) ==
    LET g == ToUpperCase(genotype)
        hits == {b \in DOMAIN trait.branches : g \in trait.branches[b]}
    IN  IF hits = {} THEN 0 ELSE CHOOSE b \in hits : \A c \in hits : b <= c

\* what a branch of the lactose rule returns: its confidence, whether its
\* summary speaks of lactase and of 'stop producing lactase', and whether a
\* whatToDoNext entry contains 'lactose-free'
LactoseResult(app, branch) ==
    [isNull |-> branch = 0,
     confidence |-> IF branch = 0 THEN "" ELSE "high",
     lactase |-> branch # 0,
     persistent |-> IF app = "web" THEN branch \in {1, 2} ELSE branch = 1,
     stopProducing |-> IF app = "web" THEN branch = 3 ELSE branch = 2,
     lactoseFree |-> IF app = "web" THEN branch = 3 ELSE branch = 2]

lactoseInterpret(app, genotype) == LactoseResult(app, interpret(TRAITS(app)[1], genotype))

\* genotypes given to the rule: two letters of A, C, G, T, X in either case
LactoseLetters == {65, 67, 71, 84, 88, 97, 99, 103, 116}
LactoseGenotypes == {<<a, b>> : a \in LactoseLetters, b \in LactoseLetters}

LacInit ==
    /\ fnIn \in [app : {"web", "site"}, genotype : LactoseGenotypes]
    /\ fnOut = <<>>
    /\ fnPc = "start"
    /\ IdleExcept("fn")

LactoseInterpret ==
    /\ fnPc = "start"
    /\ fnOut' = lactoseInterpret(fnIn.app, fnIn.genotype)
    /\ fnPc' = "done"
    /\ UNCHANGED <<fnIn, nonFnVars>>

LacNext == LactoseInterpret

SpecLactose == LacInit /\ [][LacNext]_vars

\* C16: the lactose rule interprets exactly TT, CT, TC and CC, in any letter
\* case: for each it returns a non-null interpretation of high confidence,
\* lactase-persistent for TT and CT/TC, 'stop producing lactase' with a
\* lactose-free recommendation for CC; for any other genotype it returns null.
C16_LactoseRule ==
    fnPc = "done" =>
        LET g == ToUpperCase(fnIn.genotype)
        IN  /\ fnOut.isNull <=> g \notin {GT.TT, GT.CT, GT.TC, GT.CC}
            /\ g \in {GT.TT, GT.CT, GT.TC, GT.CC} => fnOut.confidence = "high"
            /\ g \in {GT.TT, GT.CT, GT.TC} => fnOut.persistent
            /\ g = GT.CC => fnOut.stopProducing /\ fnOut.lactoseFree

\* the rule was given tt
C16_Witness ==
    fnPc = "done" /\ fnIn.genotype = <<116, 116>> /\ fnIn.app = "web"

-----------------------------------------------------------------------------
(* analyzeTrait and analyzeAllTraits on genotype maps the parser built *)

\* getGenotype(map, rsid): <<>> is null
getGenotype(map, rsid) ==
    LET snp == MapGet(map, ToLowerCase(rsid))
    IN  IF snp = <<>> THEN <<>> ELSE snp[1].genotype

\* names every object inherits: TRAITS[name] is truthy for them although no
\* trait is registered under the name
INHERITED_NAMES == {"constructor", "toString", "__proto__"}

NoInsight == [kind |-> "null", traitId |-> "", genotype |-> <<>>, branch |-> 0]
TypeErrorThrown == [kind |-> "thrown", traitId |-> "", genotype |-> <<>>, branch |-> 0]

\* the steps of analyzeTrait once TRAITS[traitId] is a trait
AnalyzeWith(map, trait) ==
    LET genotype == getGenotype(map, trait.rsid)
    IN  IF genotype = <<>> THEN NoInsight
        ELSE IF interpret(trait, genotype) = 0 THEN NoInsight
        ELSE [kind |-> "insight", traitId |-> trait.id, genotype |-> genotype,
              branch |-> interpret(trait, genotype)]

analyzeTrait(app, map, traitId) ==
    LET found == {i \in DOMAIN TRAITS(app) : TRAITS(app)[i].id = traitId}
    IN  IF found # {} THEN AnalyzeWith(map, TRAITS(app)[CHOOSE i \in found : TRUE])
        ELSE IF traitId \in INHERITED_NAMES THEN TypeErrorThrown
        ELSE NoInsight

\* a variant of the loop that puts each result in front of the earlier ones
RECURSIVE AnalyzeLoopReversed(_, _, _)
AnalyzeLoopReversed(app, map, n) ==
    IF n = 0 THEN <<>>
    ELSE LET result == analyzeTrait(app, map, TRAITS(app)[n].id)
         IN  IF result.kind = "insight"
             THEN <<result>> \o AnalyzeLoopReversed(app, map, n - 1)
             ELSE AnalyzeLoopReversed(app, map, n - 1)

\* the loop of analyzeAllTraits over the first n trait ids
RECURSIVE AnalyzeLoop(_, _, _)
AnalyzeLoop(app, map, n) ==
    IF n = 0 THEN <<>>
    ELSE LET result == analyzeTrait(app, map, TRAITS(app)[n].id)
         IN  IF result.kind = "insight"
             THEN Append(AnalyzeLoop(app, map, n - 1), result)
             ELSE AnalyzeLoop(app, map, n - 1)

analyzeAllTraits(app, map) == AnalyzeLoop(app, map, Len(TRAITS(app)))

\* the SNPs a file may hold: two registered rsIDs and one that no trait
\* reads, each with genotypes a rule names, names in the other order, or
\* does not name
MaxSnps == 2
TrRsids == {TARGET_SNPS[1], TARGET_SNPS[3], <<114, 115, 49>>}
TrGenotypes == {GT.AG, <<71, 65>>, GT.CC, GT.TT, GT.XX, <<103>>}
TrLine(rsid, genotype) == rsid \o <<9, 49, 9, 49, 48, 48, 48, 9>> \o genotype
TrLines == {TrLine(r, g) : r \in TrRsids, g \in TrGenotypes}
TrFiles == {Join(body, <<10>>) : body \in UNION {[1..n -> TrLines] : n \in 0..MaxSnps}}
TrTraitIds == {"lactose-tolerance", "alcohol-flush", "nonexistent-trait", "constructor"}

TrInit ==
    /\ fnIn \in [app : {"web", "site"}, file : TrFiles]
    /\ fnOut = <<>>
    /\ fnPc = "start"
    /\ IdleExcept("fn")

AnalyzeAllTraits ==
    /\ fnPc = "start"
    /\ LET map == parse23andMe(fnIn.file).data
       IN  fnOut' = [fn |-> "analyzeAllTraits", traitId |-> "", map |-> map,
                     results |-> analyzeAllTraits(fnIn.app, map)]
    /\ fnPc' = "done"
    /\ UNCHANGED <<fnIn, nonFnVars>>

AnalyzeTrait ==
    /\ fnPc = "start"
    /\ \E traitId \in TrTraitIds :
          LET map == parse23andMe(fnIn.file).data
          IN  fnOut' = [fn |-> "analyzeTrait", traitId |-> traitId, map |-> map,
                        results |-> <<analyzeTrait(fnIn.app, map, traitId)>>]
    /\ fnPc' = "done"
    /\ UNCHANGED <<fnIn, nonFnVars>>

TrNext == AnalyzeAllTraits \/ AnalyzeTrait

SpecTraits == TrInit /\ [][TrNext]_vars

\* the map holds the trait's rsID
TrPresent(map, trait) == \E k \in DOMAIN map : map[k].rsid = trait.rsid

\* the map holds the trait's rsID with a genotype a branch of its rule names
TrInterpreted(map, trait) ==
    \E k \in DOMAIN map :
        /\ map[k].rsid = trait.rsid
        /\ \E b \in DOMAIN trait.branches : ToUpperCase(map[k].genotype) \in trait.branches[b]

TrIds(results) == [k \in DOMAIN results |-> results[k].traitId]

TraitIds(traits) == [k \in DOMAIN traits |-> traits[k].id]

TrRegistered(app, traitId) == \E i \in DOMAIN TRAITS(app) : TRAITS(app)[i].id = traitId

TrTraitOf(app, traitId) == TRAITS(app)[CHOOSE i \in DOMAIN TRAITS(app) : TRAITS(app)[i].id = traitId]

-----------------------------------------------------------------------------
(* normalizeGenotype called on its own, once and on its own result *)

MaxGenotypeLen == 3

\* A, G, a, g, a space and a dash
NormLetters == {65, 71, 97, 103, 32, 45}
NormGenotypes == UNION {[1..n -> NormLetters] : n \in 0..MaxGenotypeLen}

NormInit ==
    /\ fnIn \in NormGenotypes
    /\ fnOut = <<>>
    /\ fnPc = "start"
    /\ IdleExcept("fn")

NormalizeGenotype ==
    /\ fnPc = "start"
    /\ fnOut' = [once |-> normalizeGenotype(fnIn),
                 twice |-> normalizeGenotype(normalizeGenotype(fnIn))]
    /\ fnPc' = "done"
    /\ UNCHANGED <<fnIn, nonFnVars>>

NormNext == NormalizeGenotype

SpecNormalize == NormInit /\ [][NormNext]_vars

\* the letters of a text with how often each occurs
NormBag(text) == [c \in {text[i] : i \in DOMAIN text} |->
                     Cardinality({i \in DOMAIN text : text[i] = c})]

\* every genotype literal of a rule is matched in its sorted form too
RulesMatchSorted ==
    \A app \in {"web", "site"} : \A i \in DOMAIN TRAITS(app) :
        \A b \in DOMAIN TRAITS(app)[i].branches : \A g \in TRAITS(app)[i].branches[b] :
            <<IF g[1] <= g[2] THEN g[1] ELSE g[2], IF g[1] <= g[2] THEN g[2] ELSE g[1]>>
                \in TRAITS(app)[i].branches[b]

\* C18: normalizeGenotype upper-cases and trims, doubles a single allele,
\* puts the two alleles of a two-letter genotype in alphabetical order and
\* leaves longer texts as they are; applying it twice gives what applying it
\* once gives; and the two-letter genotypes the rules get are sorted, and
\* the rules match the sorted form of every genotype they name.
C18_Normalization ==
    fnPc = "done" =>
        LET upper == Trim(ToUpperCase(fnIn))
        IN  /\ Len(upper) = 1 => fnOut.once = <<upper[1], upper[1]>>
            /\ Len(upper) = 2 => /\ NormBag(fnOut.once) = NormBag(upper)
                                 /\ Len(fnOut.once) = 2
                                 /\ fnOut.once[1] <= fnOut.once[2]
            /\ Len(upper) \notin {1, 2} => fnOut.once = upper
            /\ fnOut.twice = fnOut.once
            /\ Len(fnOut.once) = 2 => fnOut.once[1] <= fnOut.once[2]
            /\ RulesMatchSorted

\* ga was normalized to AG
C18_Witness ==
    fnPc = "done" /\ fnIn = <<103, 97>> /\ fnOut.once = GT.AG /\ fnOut.twice = GT.AG

-----------------------------------------------------------------------------
(* The parser's debug counters *)

\* C19: in every result of the parse functions, debug.totalLines minus
\* debug.skippedLines is the snpCount of the same result.
C19_DebugCounters ==
    parPc = "parsed" =>
        parOut.result.debug.totalLines - parOut.result.debug.skippedLines
            = parOut.result.snpCount

\* a file with a header and two data lines was parsed into two SNPs
C19_Witness ==
    /\ parPc = "parsed"
    /\ parOut.result.debug.totalLines = 3
    /\ parOut.result.debug.skippedLines = 1
    /\ parOut.result.snpCount = 2

-----------------------------------------------------------------------------
(* POST /auth/restore on its own: requests with any body.email arrive one   *)
(* after the other at a server whose users and Polar customers vary.        *)

MaxRestoreLinks == 2

\* body.email: missing, null, " A@x", "b@x", "ax", spaces only, and a number
RestoreBodies == SrvRestoreBodies \cup {NULL, StrVal(<<32, 32>>), NumVal(5)}

RestoreInit ==
    /\ clock = 0 /\ ticks = 0
    /\ users \in [SrvEmails -> {"none", "free", "paid"}]
    /\ polarCustomers \in SUBSET SrvEmails
    /\ magicLinks = <<>> /\ sessions = <<>>
    /\ reqs = <<NoReq>>
    /\ cookie = <<>>
    /\ reports = <<>>
    /\ loaded = [seq |-> 0,
                 out |-> [threw |-> FALSE, isPaid |-> FALSE, savedInsights |-> NULL]]
    /\ restored = NoRestore
    /\ IdleExcept("srv")

RestoreNext == Restore(RestoreBodies, MaxRestoreLinks, TRUE) \/ Tick

SpecRestore == RestoreInit /\ [][RestoreNext]_vars

\* the address a request names, as the handler reads it
RestoreAddress(response) == Trim(ToLowerCase(response.email.s))

\* the address is a text with an '@' in it
RestoreAddressGiven(response) ==
    /\ response.email.t = "str"
    /\ \E i \in DOMAIN RestoreAddress(response) : RestoreAddress(response)[i] = 64

\* before the request, the address has a user row with plan 'paid' or Polar
\* lists it as a customer
RestorePurchaser(response) ==
    \/ /\ RestoreAddress(response) \in DOMAIN users
       /\ users[RestoreAddress(response)] = "paid"
    \/ RestoreAddress(response) \in polarCustomers

\* C20: a POST /auth/restore creates a magic link (and answers 200) only for
\* an address of a paid user or a Polar customer; for any other address it
\* answers 404 'No purchase found' and leaves links and users as they were;
\* for a missing address or one without '@' it answers 400 and changes
\* nothing.
C20_PurchasersOnly ==
    [][restored' # NoRestore =>
         LET response == restored'
         IN  /\ (magicLinks' # magicLinks \/ response.status = 200) =>
                   /\ RestoreAddressGiven(response) /\ RestorePurchaser(response)
                   /\ magicLinks'[Len(magicLinks')].identifier = RestoreAddress(response)
             /\ users' # users => RestoreAddressGiven(response) /\ RestorePurchaser(response)
             /\ (RestoreAddressGiven(response) /\ ~RestorePurchaser(response)) =>
                   /\ response.status = 404 /\ response.error = "No purchase found"
                   /\ UNCHANGED <<users, magicLinks, polarCustomers>>
             /\ (response.email.t \in {"undefined", "null", "str"}
                 /\ ~RestoreAddressGiven(response)) =>
                   /\ response.status = 400
                   /\ UNCHANGED <<users, magicLinks, polarCustomers>>]_vars

\* one address got its link and a later request was turned away with 404
C20_Witness ==
    /\ Len(magicLinks) = 1
    /\ restored.status = 404

-----------------------------------------------------------------------------
(* The geni-web request hook (hooks.server.ts). A browser asks for a path,  *)
(* handle answers by resolving the request or by a redirect, and the        *)
(* browser follows a redirect with the cookies it then holds.               *)

\* the paths asked for: /, /sign-in, /sign-in/help, /dashboard,
\* /dashboard/settings, /onboarding, /onboarding/step and /about
Path ==
    [root |->
         <<47>>,
     signIn |->
         <<47, 115, 105, 103, 110, 45, 105, 110>>,
     signInHelp |->
         <<47, 115, 105, 103, 110, 45, 105, 110, 47, 104, 101, 108, 112>>,
     dashboard |->
         <<47, 100, 97, 115, 104, 98, 111, 97, 114, 100>>,
     dashboardSettings |->
         <<47, 100, 97, 115, 104, 98, 111, 97, 114, 100, 47, 115, 101, 116, 116, 105, 110, 103, 115>>,
     onboarding |->
         <<47, 111, 110, 98, 111, 97, 114, 100, 105, 110, 103>>,
     onboardingStep |->
         <<47, 111, 110, 98, 111, 97, 114, 100, 105, 110, 103, 47, 115, 116, 101, 112>>,
     about |->
         <<47, 97, 98, 111, 117, 116>>]

PROTECTED_ROUTES == <<Path.dashboard, Path.onboarding>>

\* a variant that protects /dashboard only
isProtectedRouteDashboardOnly(pathname) == StartsWith(pathname, Path.dashboard)

isProtectedRoute(pathname) ==
    \E k \in DOMAIN PROTECTED_ROUTES : StartsWith(pathname, PROTECTED_ROUTES[k])

\* geni-web's cookie functions: the token is in 'access_token'; clearing
\* deletes 'access_token' and 'user', both with path '/'
webGetAuthToken(jar) == CookiesGet(jar, "access_token")

webClearAuthCookies(jar) == CookiesDelete(CookiesDelete(jar, "access_token", <<47>>), "user", <<47>>)

\* authenticateRequest(cookies) at Date.now() = nowMs
authenticateRequest(jar, nowMs) ==
    LET accessToken == webGetAuthToken(jar)
    IN  IF accessToken = <<>> \/ accessToken = <<TextPart(<<>>)>>
        THEN VerifyFail("No authentication token found")
        ELSE verifyToken("web", accessToken, nowMs)

\* db.query.users.findFirst({ where: eq(users.id, userId) }): <<>> is undefined
HookFindUser(db, userId) ==
    LET hits == {k \in DOMAIN db.rows : StrVal(db.rows[k].id) = userId}
    IN  IF hits = {} THEN <<>> ELSE <<db.rows[CHOOSE k \in hits : \A j \in hits : k <= j]>>

\* what handle returns: resolve(event) or Response.redirect(location), with
\* whether clearAuthCookies was called and what event.locals.user holds
\* (<<>>: never assigned or undefined)
Resolved(clears, localsUser) ==
    [kind |-> "resolved", location |-> <<>>, clears |-> clears, localsUser |-> localsUser]
Redirect(location, clears, localsUser) ==
    [kind |-> "redirect", location |-> location, clears |-> clears, localsUser |-> localsUser]

\* a variant of the branch below without the two onboarding checks
HandleFoundNoGate(pathname, authUser, found) ==
    IF found = <<>> THEN Redirect(Path.signIn, TRUE, <<>>)
    ELSE LET dbUser == found[1]
             localsUser == <<[user |-> authUser,
                              onboardingCompleted |-> dbUser.onboardingCompleted]>>
         IN  IF pathname = Path.signIn
             THEN Redirect(IF dbUser.onboardingCompleted THEN Path.dashboard
                           ELSE Path.onboarding, FALSE, localsUser)
             ELSE Resolved(FALSE, localsUser)

\* lines 63-90: the branch for an authenticated user the query has answered
HandleFound(pathname, authUser, found) ==
    IF found = <<>> THEN Redirect(Path.signIn, TRUE, <<>>)
    ELSE LET dbUser == found[1]
             localsUser == <<[user |-> authUser,
                              onboardingCompleted |-> dbUser.onboardingCompleted]>>
         IN  IF pathname = Path.signIn
             THEN Redirect(IF dbUser.onboardingCompleted THEN Path.dashboard
                           ELSE Path.onboarding, FALSE, localsUser)
             ELSE IF StartsWith(pathname, Path.dashboard) /\ ~dbUser.onboardingCompleted
             THEN Redirect(Path.onboarding, FALSE, localsUser)
             ELSE IF StartsWith(pathname, Path.onboarding) /\ dbUser.onboardingCompleted
             THEN Redirect(Path.dashboard, FALSE, localsUser)
             ELSE Resolved(FALSE, localsUser)

\* handle({ event, resolve })
handle(pathname, jar, db, nowMs) ==
    LET authResult == authenticateRequest(jar, nowMs)
    IN  IF authResult.success /\ authResult.user # <<>>
        THEN IF db.fails
             THEN IF isProtectedRoute(pathname) THEN Redirect(Path.signIn, TRUE, <<>>)
                  ELSE Resolved(TRUE, <<>>)
             ELSE HandleFound(pathname, authResult.user,
                              HookFindUser(db, ObjGet(authResult.user, Txt.userId)))
        ELSE IF isProtectedRoute(pathname) THEN Redirect(Path.signIn, TRUE, <<>>)
             ELSE Resolved(FALSE, <<>>)

\* a variant in which every response carries them
CookiesAlwaysReachBrowser(response) == TRUE

\* SvelteKit puts the Set-Cookie headers of cookies.set and cookies.delete on
\* the response that resolve(event) produces; a Response that handle builds
\* itself, as Response.redirect does, carries none of them
CookiesReachBrowser(response) == response.kind = "resolved"

\* the cookies the browser holds after the response
JarAfter(jar, response) ==
    IF response.clears /\ CookiesReachBrowser(response) THEN webClearAuthCookies(jar) ELSE jar

MaxHops == 4

\* Date.now() at every request; a token made at 0 has expired by then
HkNow == ACCESS_TOKEN_EXPIRY_MS + 5000

HkUser == MakePayload("web", StrVal(<<117, 49>>), StrVal(<<97, 64, 120>>), StrVal(Txt.free))

\* a token in force, one that has expired, and one signed with another key
HkToken == generateToken("web", HkUser, HkNow - 1000).token
HkExpired == generateToken("web", HkUser, 0).token
HkForged == <<HkToken[1], HkToken[2], HmacSignature("other", HkToken[3].msg)>>

HkJars ==
    {{}} \cup {{[name |-> "access_token", path |-> <<47>>, value |-> t],
                [name |-> "user", path |-> <<47>>, value |-> <<TextPart(<<117>>)>>]} :
                   t \in {HkToken, HkExpired, HkForged, <<TextPart(<<>>)>>}}

HkPaths == {Path[f] : f \in DOMAIN Path}

HkDbs == [fails : BOOLEAN,
          rows : {<<>>, <<[id |-> <<117, 49>>, onboardingCompleted |-> FALSE]>>,
                  <<[id |-> <<117, 49>>, onboardingCompleted |-> TRUE]>>}]

NoResponse == [kind |-> "none", location |-> <<>>, clears |-> FALSE, localsUser |-> <<>>]

HkInit ==
    /\ hkPath \in HkPaths
    /\ hkJar \in HkJars
    /\ hkDb \in HkDbs
    /\ hkOut = NoResponse
    /\ hkHops = 0
    /\ hkPc = "request"
    /\ IdleExcept("hk")

\* the server answers the request
HkHandle ==
    /\ hkPc = "request"
    /\ hkOut' = handle(hkPath, hkJar, hkDb, HkNow)
    /\ hkJar' = JarAfter(hkJar, hkOut')
    /\ hkPc' = "responded"
    /\ UNCHANGED <<hkPath, hkDb, hkHops, nonHkVars>>

\* the browser follows the redirect
HkFollow ==
    /\ hkPc = "responded"
    /\ hkOut.kind = "redirect"
    /\ hkHops < MaxHops
    /\ hkPath' = hkOut.location
    /\ hkHops' = hkHops + 1
    /\ hkPc' = "request"
    /\ UNCHANGED <<hkJar, hkDb, hkOut, nonHkVars>>

HkNext == HkHandle \/ HkFollow

SpecHook == HkInit /\ [][HkNext]_vars

\* the request carries the token in force
HkTokenValid == CookiesGet(hkJar, "access_token") = HkToken

\* the query answers, and with the row of the token's user
HkUserFound == ~hkDb.fails /\ hkDb.rows # <<>>

HkCompleted == hkDb.rows[1].onboardingCompleted

HkUnder(prefix) == Len(hkPath) >= Len(prefix) /\ SubSeq(hkPath, 1, Len(prefix)) = prefix

\* handle answers the request in this step
HkAnswers == hkPc = "request" /\ hkPc' = "responded"

C22_NoRedirectLoop == hkHops < MaxHops

\* a request was resolved after one redirect
C22_Witness == hkPc = "responded" /\ hkOut.kind = "resolved" /\ hkHops = 1

\* C23: for an authenticated user the database holds, a path under
\* /dashboard is resolved only if onboardingCompleted is true and otherwise
\* redirected to /onboarding, a path under /onboarding is resolved only if it
\* is false and otherwise redirected to /dashboard, and /sign-in is never
\* resolved but redirected to /dashboard or /onboarding accordingly.
C23_OnboardingGating ==
    [][(HkAnswers /\ HkTokenValid /\ HkUserFound) =>
          /\ HkUnder(Path.dashboard) =>
                IF HkCompleted THEN hkOut'.kind = "resolved"
                ELSE hkOut'.kind = "redirect" /\ hkOut'.location = Path.onboarding
          /\ HkUnder(Path.onboarding) =>
                IF HkCompleted
                THEN hkOut'.kind = "redirect" /\ hkOut'.location = Path.dashboard
                ELSE hkOut'.kind = "resolved"
          /\ hkPath = Path.signIn =>
                /\ hkOut'.kind = "redirect"
                /\ hkOut'.location = IF HkCompleted THEN Path.dashboard ELSE Path.onboarding]_vars

\* /sign-in sent a user who has not finished onboarding to /onboarding,
\* which was then resolved
C23_Witness ==
    /\ hkPc = "responded" /\ hkHops = 1 /\ hkPath = Path.onboarding
    /\ hkOut.kind = "resolved" /\ hkOut.localsUser # <<>>
    /\ ~hkOut.localsUser[1].onboardingCompleted

-----------------------------------------------------------------------------
(* serializeGenotypes and deserializeGenotypes around the report hand-over of
   geni-site: the page parses the file, keeps the genotypes of the trait
   rsIDs and the report page builds a map from them again *)

\* getAllRsids(): the rsID of every trait, in the order of TRAITS
getAllRsids == [i \in DOMAIN TRAITS("site") |-> TRAITS("site")[i].rsid]

\* the loop of serializeGenotypes over the first n rsIDs; a null and an empty
\* genotype are both skipped
RECURSIVE SerializeLoop(_, _, _)
SerializeLoop(map, rsids, n) ==
    IF n = 0 THEN <<>>
    ELSE IF getGenotype(map, rsids[n]) # <<>>
    THEN Append(SerializeLoop(map, rsids, n - 1),
                [rsid |-> ToLowerCase(rsids[n]), genotype |-> getGenotype(map, rsids[n])])
    ELSE SerializeLoop(map, rsids, n - 1)

serializeGenotypes(map, rsids) == SerializeLoop(map, rsids, Len(rsids))

\* the loop of deserializeGenotypes over the first n entries
RECURSIVE DeserializeLoop(_, _)
DeserializeLoop(serialized, n) ==
    IF n = 0 THEN <<>>
    ELSE MapSet(DeserializeLoop(serialized, n - 1),
                [rsid |-> serialized[n].rsid, chromosome |-> <<>>, position |-> 0,
                 genotype |-> serialized[n].genotype])

deserializeGenotypes(serialized) == DeserializeLoop(serialized, Len(serialized))

\* the files of the round trip: the lines of TrLines and, for each rsID, a
\* five-column line whose fourth column is one space
SerBlankLine(rsid) == rsid \o <<9, 49, 9, 49, 48, 48, 48, 9, 32, 9, 65>>
SerLines == TrLines \cup {SerBlankLine(r) : r \in TrRsids}
SerFiles == {Join(body, <<10>>) : body \in UNION {[1..n -> SerLines] : n \in 0..MaxSnps}}

NoMap == <<>>

SerInit ==
    /\ fnIn \in [file : SerFiles]
    /\ fnOut = [map |-> NoMap, insights |-> <<>>, genotypes |-> <<>>,
                restoredMap |-> NoMap, restoredInsights |-> <<>>]
    /\ fnPc = "start"
    /\ IdleExcept("fn")

\* the page parses the file and analyses the parsed map
SerParse ==
    /\ fnPc = "start"
    /\ fnOut' = [fnOut EXCEPT !.map = parseGeneticFile(fnIn.file).data]
    /\ fnPc' = "parsed"
    /\ UNCHANGED <<fnIn, nonFnVars>>

\* serializeGenotypes(result.data, getAllRsids()), with the insights of the
\* parsed map
SerSerialize ==
    /\ fnPc = "parsed"
    /\ fnOut' = [fnOut EXCEPT !.genotypes = serializeGenotypes(fnOut.map, getAllRsids),
                              !.insights = analyzeAllTraits("site", fnOut.map)]
    /\ fnPc' = "stored"
    /\ UNCHANGED <<fnIn, nonFnVars>>

\* deserializeGenotypes on the stored genotypes
SerDeserialize ==
    /\ fnPc = "stored"
    /\ fnOut' = [fnOut EXCEPT !.restoredMap = deserializeGenotypes(fnOut.genotypes)]
    /\ fnPc' = "restored"
    /\ UNCHANGED <<fnIn, nonFnVars>>

\* analyzeAllTraits on the restored map
SerAnalyze ==
    /\ fnPc = "restored"
    /\ fnOut' = [fnOut EXCEPT !.restoredInsights = analyzeAllTraits("site", fnOut.restoredMap)]
    /\ fnPc' = "done"
    /\ UNCHANGED <<fnIn, nonFnVars>>

SerNext == SerParse \/ SerSerialize \/ SerDeserialize \/ SerAnalyze

SpecSerialize == SerInit /\ [][SerNext]_vars

SerTraitRsid(rsid) == \E i \in DOMAIN getAllRsids : getAllRsids[i] = rsid

\* the restored map holds every trait rsID of the parsed map with its genotype
SerKeepsTraitGenotypes ==
    \A k \in DOMAIN fnOut.map :
        SerTraitRsid(fnOut.map[k].rsid) =>
            /\ MapGet(fnOut.restoredMap, fnOut.map[k].rsid) # <<>>
            /\ MapGet(fnOut.restoredMap, fnOut.map[k].rsid)[1].genotype = fnOut.map[k].genotype

\* the restored map holds nothing but trait rsIDs of the parsed map
SerNothingElse ==
    \A k \in DOMAIN fnOut.restoredMap :
        /\ SerTraitRsid(fnOut.restoredMap[k].rsid)
        /\ MapGet(fnOut.map, fnOut.restoredMap[k].rsid) # <<>>

\* C24: after the round trip through serializeGenotypes(m, getAllRsids()) and
\* deserializeGenotypes, the map holds for each trait rsID present in the
\* parsed map m the same genotype as m and nothing else, and analyzeAllTraits
\* returns the same insights on it as on m
C24_RoundTripPreserves ==
    fnPc = "done" =>
        /\ SerKeepsTraitGenotypes
        /\ SerNothingElse
        /\ fnOut.restoredInsights = fnOut.insights

\* a parsed map with a trait rsID and an rsID no trait reads went through the
\* round trip and gave an insight
C24_Witness ==
    /\ fnPc = "done"
    /\ Len(fnOut.map) = 2
    /\ Len(fnOut.restoredMap) = 1
    /\ Len(fnOut.insights) = 1

\* the analysis alone is preserved
SerSameInsights == fnPc = "done" => fnOut.restoredInsights = fnOut.insights

\* the genotypes are preserved when the parsed map holds no empty genotype
SerNonEmptyKept ==
    fnPc = "done" /\ (\A k \in DOMAIN fnOut.map : fnOut.map[k].genotype # <<>>)
        => SerKeepsTraitGenotypes /\ SerNothingElse

-----------------------------------------------------------------------------
(* parseGeneticFile on files whose format names stand at, before and after
   the last line detectFormat looks at *)

\* how many lines follow the padding
MaxFmtLines == 2

\* comment lines in front of the named lines: none, or as many as put the
\* next line second to last, last, or first beyond the lines detectFormat scans
FmtPads == {0, FORMAT_SCAN_LINES - 2, FORMAT_SCAN_LINES - 1, FORMAT_SCAN_LINES}

\* a header of each format, a line naming both, a comment and a SNP
FmtLines ==
    {<<35, 65, 110, 99, 101, 115, 116, 114, 121, 68, 78, 65>>,
     <<35, 32, 50, 51, 97, 110, 100, 77, 101>>,
     <<35>> \o Txt.nameAncestryDNA \o <<32>> \o Txt.name23andMe,
     <<35, 120>>,
     <<114, 115, 54, 55, 49, 9, 49, 50, 9, 55, 9, 71, 65>>}

FmtFiles ==
    {Join([k \in 1..pad |-> <<35, 120>>] \o body, <<10>>) :
        pad \in FmtPads,
        body \in UNION {[1..n -> FmtLines] : n \in 1..MaxFmtLines}}

FmtInit ==
    /\ parIn \in FmtFiles
    /\ parOut = <<>>
    /\ parPc = "start"
    /\ IdleExcept("par")

FmtNext == ParseGeneticFile

SpecFormat == FmtInit /\ [][FmtNext]_vars

\* the lines of the file that name a format
FmtNamed(lines) ==
    {i \in DOMAIN lines : \/ Includes(lines[i], Txt.name23andMe)
                          \/ Includes(lines[i], Txt.nameAncestryDNA)}

\* the first line among the first 50 that names a format, 0 when none does
FmtFirstNamed(lines) ==
    IF FmtNamed(lines) \cap 1..FORMAT_SCAN_LINES = {} THEN 0
    ELSE CHOOSE i \in FmtNamed(lines) \cap 1..FORMAT_SCAN_LINES :
            \A j \in FmtNamed(lines) \cap 1..FORMAT_SCAN_LINES : i <= j

\* the format the header sniffing finds
FmtSniffed(lines) ==
    IF FmtFirstNamed(lines) = 0 THEN "unknown"
    ELSE IF Includes(lines[FmtFirstNamed(lines)], Txt.name23andMe) THEN "23andme"
    ELSE "ancestry"

\* C25: the format parseGeneticFile reports is 'ancestry' exactly when an
\* 'AncestryDNA' line comes before any '23andMe' line within the first 50
\* lines, '23andme' exactly when a '23andMe' line comes first within the
\* first 50 lines, and 'unknown' otherwise
C25_FormatAgrees ==
    parPc = "parsed" => parOut.result.format = FmtSniffed(SplitLines(parIn))

\* a file whose first format name stands on line 51 was parsed
C25_Witness ==
    /\ parPc = "parsed"
    /\ FmtNamed(SplitLines(parIn)) # {}
    /\ \A i \in FmtNamed(SplitLines(parIn)) : i > FORMAT_SCAN_LINES

\* the reported format agrees with the sniffing whenever no '23andMe' line
\* stands beyond the first 50 lines
FmtAgreesWithinScan ==
    parPc = "parsed"
    /\ (\A i \in DOMAIN SplitLines(parIn) :
            Includes(SplitLines(parIn)[i], Txt.name23andMe) => i <= FORMAT_SCAN_LINES)
        => parOut.result.format = FmtSniffed(SplitLines(parIn))

=============================================================================
